---- MODULE Spec2Model ----
(***************************************************************************)
(* Escrow marketplace (Move modules user_profile, product, escrow, order,  *)
(* and the TypeScript client of the escrow module).                        *)
(*                                                                         *)
(* The chain executes every entry function as one transaction: it either   *)
(* runs to completion or aborts with an error code and leaves the global   *)
(* storage as it was.  Each entry function is therefore one action; the    *)
(* abort code it ends with (0 = success) is computed by an ...Err operator  *)
(* that evaluates the function's assert! lines in source order.             *)
(*                                                                         *)
(* Strings are sequences of ASCII bytes (Move's String is a vector<u8>).   *)
(* Object addresses of products and escrow orders are their creation       *)
(* index (object::create_object returns a fresh address on every call).    *)
(* Amounts are far below 2^64 in this model, so the u64 overflow abort of  *)
(* unit_price * quantity is not reached.  The timestamps created_at and    *)
(* updated_at, the titles, names and other free-form strings are stored    *)
(* and returned but never read by any entry function; they are left out.   *)
(*                                                                         *)
(* Spec is the escrow module with the profiles and products it needs,      *)
(* SpecCatalog adds the catalog management of the product module,          *)
(* SpecProfiles the profile management of user_profile, and SpecCodes      *)
(* applies the two code generators on their own.  SpecFair is the escrow   *)
(* with a seller who delivers and a buyer who confirms (weak fairness).    *)
(* SpecOrder is the module order, whose orders hold no funds.  SpecClient  *)
(* applies the client's getEscrowOrder to the tuple of get_escrow_order;   *)
(* its orders carry the strings and timestamps the other specifications    *)
(* leave out.  mark_order_paid and the is_paid flag of module order are    *)
(* left out: no status check reads them.                                   *)
(***************************************************************************)
EXTENDS Integers, Sequences, FiniteSets, TLC

\* ------------------------------------------------------------------ bounds
MaxProducts == 1
MaxOrders == 2
MaxPrice == 2
MaxQuantity == 2
MaxTime == 2
InitialBalance == 3
MaxGenId == 8

\* Accounts: 0x123 and 0x456 are the buyer and seller of the tests, 0x789 a
\* third account.
Accounts == {291, 1110, 1929}

\* ------------------------------------------------------------ error codes
ERR_USER_PROFILE_NOT_FOUND == 1
ERR_ONLY_BUYER_CAN_TRADE == 2
ERR_PRODUCT_NOT_AVAILABLE == 3
ERR_INSUFFICIENT_PRODUCT_QUANTITY == 4
ERR_INVALID_QUANTITY == 5
ERR_ESCROW_ORDER_NOT_FOUND == 6
ERR_INVALID_DELIVERY_CODE == 7
ERR_INVALID_RECEIVING_CODE == 8
ERR_ONLY_BUYER_CAN_CONFIRM == 9
ERR_ONLY_SELLER_CAN_DELIVER == 10
ERR_ORDER_NOT_HOLDING == 12
ERR_ORDER_NOT_DELIVERED == 13
ERR_INSUFFICIENT_FUNDS == 14
ERR_CANNOT_CANCEL == 15

\* user_profile error codes
ERR_PROFILE_ALREADY_EXISTS == 1

ERR_PROFILE_NOT_FOUND == 2

ERR_INVALID_ROLE == 4

\* product error codes
ERR_ONLY_SELLER_CAN_CREATE == 1
ERR_NOT_PRODUCT_OWNER == 2
ERR_PRODUCT_NOT_FOUND == 3
ERR_PRODUCT_ALREADY_DELETED == 4
ERR_INSUFFICIENT_QUANTITY == 5
ERR_INVALID_PRICE == 6
ERR_PRODUCT_INVALID_QUANTITY == 7
ERR_PRODUCT_USER_PROFILE_NOT_FOUND == 9

\* order error codes
ERR_ORDER_USER_PROFILE_NOT_FOUND == 1

ERR_ONLY_BUYER_CAN_ORDER == 2

ERR_ORDER_PRODUCT_NOT_AVAILABLE == 3

ERR_ORDER_INSUFFICIENT_PRODUCT_QUANTITY == 4

ERR_ORDER_INVALID_QUANTITY == 5

ERR_ORDER_NOT_FOUND == 6

ERR_NOT_ORDER_OWNER == 7

ERR_ONLY_SELLER_CAN_UPDATE == 8

ERR_INVALID_STATUS_TRANSITION == 9

ERR_ORDER_ALREADY_CANCELLED == 10

ERR_CANNOT_CANCEL_ORDER == 11

\* ----------------------------------------------------------- status, role
\* order status
ORDER_STATUS_PENDING == 1

ORDER_STATUS_CONFIRMED == 2

ORDER_STATUS_PROCESSING == 3

ORDER_STATUS_SHIPPED == 4

ORDER_STATUS_DELIVERED == 5

ORDER_STATUS_CANCELLED == 6

ORDER_STATUS_REFUNDED == 7

ESCROW_STATUS_INITIATED == 1
ESCROW_STATUS_HOLDING == 2
ESCROW_STATUS_DELIVERED == 3
ESCROW_STATUS_COMPLETED == 4
ESCROW_STATUS_CANCELLED == 5
ESCROW_STATUS_REFUNDED == 6

ROLE_BUYER == 1
ROLE_SELLER == 2

VARIABLES
    profiles,        \* UserProfile resource of each account
    products,        \* Product objects, by creation index
    balance,         \* CoinStore<AptosCoin> balance of each account
    orders,          \* EscrowOrder objects, by creation index
    counter,         \* GlobalEscrowCounter.counter
    buyerRegistry,   \* BuyerEscrowRegistry resource of each account
    sellerRegistry,  \* SellerEscrowRegistry at the module address
    now,             \* timestamp::now_seconds()
    lastCall,        \* the last entry-function call and its abort code
    generated,       \* the last direct application of a code generator
    placedOrders,         \* Order objects of module order, by creation index
    orderCounter,         \* GlobalOrderCounter.counter
    buyerOrderRegistry,   \* BuyerOrderRegistry resource of each account
    sellerOrderRegistry,  \* SellerOrderRegistry at the module address
    fetched               \* the last order the client read, and what it got

vars == <<profiles, products, balance, orders, counter, buyerRegistry,
          sellerRegistry, now, lastCall, generated, placedOrders,
          orderCounter, buyerOrderRegistry, sellerOrderRegistry, fetched>>

chain == <<profiles, products, balance, orders, counter, buyerRegistry,
           sellerRegistry>>

\* The global storage of module order.
shop == <<placedOrders, orderCounter, buyerOrderRegistry, sellerOrderRegistry>>

\* ------------------------------------------------------- code generation
\* First byte of sha3_256(bcs::to_bytes(addr)) for the three accounts.
AddrHashByte(addr) ==
    CASE addr = 291 -> 122
      [] addr = 1110 -> 133
      [] addr = 1929 -> 200

\* The digits in the order the loop produces them, least significant first,
\* without vector::reverse.
RECURSIVE Digits_NotReversed(_)
Digits_NotReversed(temp) ==
    IF temp = 0 THEN <<>>
    ELSE <<(temp % 10) + 48>> \o Digits_NotReversed(temp \div 10)

RECURSIVE Digits(_)
Digits(temp) ==
    IF temp = 0 THEN <<>> ELSE Append(Digits(temp \div 10), (temp % 10) + 48)

u64_to_string(num) == IF num = 0 THEN <<48>> ELSE Digits(num)

\* The code as a function of the id and of first_byte, the first byte of the
\* address hash.
six_digit_code(escrow_order_id, first_byte) ==
    LET seed == escrow_order_id + first_byte
    IN  u64_to_string(100000 + (seed % 900000))

generate_6_digit_code(escrow_order_id, buyer_addr) ==
    six_digit_code(escrow_order_id, AddrHashByte(buyer_addr))

four_digit_code(escrow_order_id, first_byte) ==
    LET seed == (escrow_order_id * 7) + first_byte
    IN  u64_to_string(1000 + (seed % 9000))

generate_4_digit_code(escrow_order_id, seller_addr) ==
    four_digit_code(escrow_order_id, AddrHashByte(seller_addr))

\* No code generator has been applied directly.
NotGenerated == [fn |-> "none", escrow_order_id |-> 0, first_byte |-> 0,
                 code |-> <<>>]

\* The code b"000000" the tests submit as a wrong code.
WrongCode == <<48, 48, 48, 48, 48, 48>>

\* ------------------------------------------------------------ user_profile
NoProfile == [exists |-> FALSE, role |-> 0, is_active |-> FALSE]

profile_exists(addr) == profiles[addr].exists

is_buyer(addr) ==
    IF ~profiles[addr].exists THEN FALSE ELSE profiles[addr].role = ROLE_BUYER

is_seller(addr) ==
    IF ~profiles[addr].exists THEN FALSE ELSE profiles[addr].role = ROLE_SELLER

RegisterErr(sender, role) ==
    IF ~(role = ROLE_BUYER \/ role = ROLE_SELLER) THEN ERR_INVALID_ROLE
    ELSE IF profiles[sender].exists THEN ERR_PROFILE_ALREADY_EXISTS
    ELSE 0

\* ----------------------------------------------------------------- product
ProductExists(p) == p \in 1..Len(products)

is_product_available(p) ==
    IF ~ProductExists(p) THEN FALSE
    ELSE /\ products[p].is_available
         /\ ~products[p].is_deleted
         /\ products[p].quantity_left > 0

get_product_price(p) == products[p].price

CreateProductErr(sender, price, total_quantity) ==
    IF ~profile_exists(sender) THEN ERR_PRODUCT_USER_PROFILE_NOT_FOUND
    ELSE IF ~is_seller(sender) THEN ERR_ONLY_SELLER_CAN_CREATE
    ELSE IF ~(price > 0) THEN ERR_INVALID_PRICE
    ELSE IF ~(total_quantity > 0) THEN ERR_PRODUCT_INVALID_QUANTITY
    ELSE 0

NewProduct(sender, price, total_quantity) ==
    [price |-> price,
     total_quantity |-> total_quantity,
     quantity_left |-> total_quantity,
     is_available |-> TRUE,
     is_deleted |-> FALSE,
     seller_wallet |-> sender]

\* -------------------------------------------------------------------- coin
Withdraw(bal, addr, amount) == [bal EXCEPT ![addr] = @ - amount]

Deposit(bal, addr, amount) == [bal EXCEPT ![addr] = @ + amount]

\* ------------------------------------------------------------------ escrow
OrderExists(o) == o \in 1..Len(orders)

\* initiate_trade_and_lock_funds with the funds checked before the stock.
InitiateErr_FundsBeforeStock(buyer_addr, p, quantity) ==
    IF ~profile_exists(buyer_addr) THEN ERR_USER_PROFILE_NOT_FOUND
    ELSE IF ~is_buyer(buyer_addr) THEN ERR_ONLY_BUYER_CAN_TRADE
    ELSE IF ~(quantity > 0) THEN ERR_INVALID_QUANTITY
    ELSE IF ~is_product_available(p) THEN ERR_PRODUCT_NOT_AVAILABLE
    ELSE IF ~(balance[buyer_addr] >= get_product_price(p) * quantity)
         THEN ERR_INSUFFICIENT_FUNDS
    ELSE IF ~(products[p].quantity_left >= quantity)
         THEN ERR_INSUFFICIENT_PRODUCT_QUANTITY
    ELSE 0

InitiateErr(buyer_addr, p, quantity) ==
    IF ~profile_exists(buyer_addr) THEN ERR_USER_PROFILE_NOT_FOUND
    ELSE IF ~is_buyer(buyer_addr) THEN ERR_ONLY_BUYER_CAN_TRADE
    ELSE IF ~(quantity > 0) THEN ERR_INVALID_QUANTITY
    ELSE IF ~is_product_available(p) THEN ERR_PRODUCT_NOT_AVAILABLE
    ELSE IF ~(products[p].quantity_left >= quantity)
         THEN ERR_INSUFFICIENT_PRODUCT_QUANTITY
    ELSE IF ~(balance[buyer_addr] >= get_product_price(p) * quantity)
         THEN ERR_INSUFFICIENT_FUNDS
    ELSE 0

\* The order priced for one unit whatever the quantity.
NewEscrowOrder_OneUnit(buyer_addr, p, quantity, escrow_order_id, current_time) ==
    LET seller_wallet == products[p].seller_wallet
        unit_price == get_product_price(p)
    IN  [escrow_order_id |-> escrow_order_id,
         product_obj_addr |-> p,
         quantity |-> quantity,
         buyer_wallet |-> buyer_addr,
         seller_wallet |-> seller_wallet,
         unit_price |-> unit_price,
         total_amount |-> unit_price,
         delivery_code |-> generate_6_digit_code(escrow_order_id, buyer_addr),
         receiving_code |-> generate_4_digit_code(escrow_order_id, seller_wallet),
         status |-> ESCROW_STATUS_HOLDING,
         locked_funds |-> unit_price,
         delivered_at |-> 0,
         completed_at |-> 0]

NewEscrowOrder(buyer_addr, p, quantity, escrow_order_id, current_time) ==
    LET seller_wallet == products[p].seller_wallet
        unit_price == get_product_price(p)
        total_amount == unit_price * quantity
    IN  [escrow_order_id |-> escrow_order_id,
         product_obj_addr |-> p,
         quantity |-> quantity,
         buyer_wallet |-> buyer_addr,
         seller_wallet |-> seller_wallet,
         unit_price |-> unit_price,
         total_amount |-> total_amount,
         delivery_code |-> generate_6_digit_code(escrow_order_id, buyer_addr),
         receiving_code |-> generate_4_digit_code(escrow_order_id, seller_wallet),
         status |-> ESCROW_STATUS_HOLDING,
         locked_funds |-> total_amount,
         delivered_at |-> 0,
         completed_at |-> 0]

NoBuyerRegistry == [exists |-> FALSE, escrow_orders |-> <<>>, order_count |-> 0]

AddToBuyerRegistry(reg, buyer_addr, escrow_order_addr) ==
    [reg EXCEPT ![buyer_addr] =
        [exists |-> TRUE,
         escrow_orders |-> Append(@.escrow_orders, escrow_order_addr),
         order_count |-> @.order_count + 1]]

\* vector::index_of: the first index holding the value, 0 when absent.
IndexOf(seq, x) ==
    IF \E i \in 1..Len(seq) : seq[i] = x
    THEN CHOOSE i \in 1..Len(seq) :
            /\ seq[i] = x
            /\ \A j \in 1..(i - 1) : seq[j] # x
    ELSE 0

\* The registry that puts a known seller's newest order first.
add_to_seller_registry_NewestFirst(reg, seller_addr, escrow_order_addr) ==
    LET index == IndexOf(reg.seller_addresses, seller_addr)
    IN  IF index # 0
        THEN [reg EXCEPT !.seller_escrow_orders[index] =
                            <<escrow_order_addr>> \o @]
        ELSE [seller_addresses |-> Append(reg.seller_addresses, seller_addr),
              seller_escrow_orders |->
                  Append(reg.seller_escrow_orders, <<escrow_order_addr>>)]

add_to_seller_registry(reg, seller_addr, escrow_order_addr) ==
    LET index == IndexOf(reg.seller_addresses, seller_addr)
    IN  IF index # 0
        THEN [reg EXCEPT !.seller_escrow_orders[index] =
                            Append(@, escrow_order_addr)]
        ELSE [seller_addresses |-> Append(reg.seller_addresses, seller_addr),
              seller_escrow_orders |->
                  Append(reg.seller_escrow_orders, <<escrow_order_addr>>)]


\* deliver_order with the code compared before the status.
DeliverErr_CodeBeforeStatus(seller_addr, o, delivery_code_input) ==
    IF ~OrderExists(o) THEN ERR_ESCROW_ORDER_NOT_FOUND
    ELSE IF ~(orders[o].seller_wallet = seller_addr)
         THEN ERR_ONLY_SELLER_CAN_DELIVER
    ELSE IF ~(orders[o].delivery_code = delivery_code_input)
         THEN ERR_INVALID_DELIVERY_CODE
    ELSE IF ~(orders[o].status = ESCROW_STATUS_HOLDING)
         THEN ERR_ORDER_NOT_HOLDING
    ELSE 0

\* deliver_order without the check of the caller.
DeliverErr_AnyCaller(seller_addr, o, delivery_code_input) ==
    IF ~OrderExists(o) THEN ERR_ESCROW_ORDER_NOT_FOUND
    ELSE IF ~(orders[o].status = ESCROW_STATUS_HOLDING)
         THEN ERR_ORDER_NOT_HOLDING
    ELSE IF ~(orders[o].delivery_code = delivery_code_input)
         THEN ERR_INVALID_DELIVERY_CODE
    ELSE 0

\* deliver_order without the check of the code.
DeliverErr_AnyCode(seller_addr, o, delivery_code_input) ==
    IF ~OrderExists(o) THEN ERR_ESCROW_ORDER_NOT_FOUND
    ELSE IF ~(orders[o].seller_wallet = seller_addr)
         THEN ERR_ONLY_SELLER_CAN_DELIVER
    ELSE IF ~(orders[o].status = ESCROW_STATUS_HOLDING)
         THEN ERR_ORDER_NOT_HOLDING
    ELSE 0

\* deliver_order accepting a Cancelled order as well as a Holding one.
DeliverErr_AllowsCancelled(seller_addr, o, delivery_code_input) ==
    IF ~OrderExists(o) THEN ERR_ESCROW_ORDER_NOT_FOUND
    ELSE IF ~(orders[o].seller_wallet = seller_addr)
         THEN ERR_ONLY_SELLER_CAN_DELIVER
    ELSE IF ~(orders[o].status = ESCROW_STATUS_HOLDING
              \/ orders[o].status = ESCROW_STATUS_CANCELLED)
         THEN ERR_ORDER_NOT_HOLDING
    ELSE IF ~(orders[o].delivery_code = delivery_code_input)
         THEN ERR_INVALID_DELIVERY_CODE
    ELSE 0

DeliverErr(seller_addr, o, delivery_code_input) ==
    IF ~OrderExists(o) THEN ERR_ESCROW_ORDER_NOT_FOUND
    ELSE IF ~(orders[o].seller_wallet = seller_addr)
         THEN ERR_ONLY_SELLER_CAN_DELIVER
    ELSE IF ~(orders[o].status = ESCROW_STATUS_HOLDING)
         THEN ERR_ORDER_NOT_HOLDING
    ELSE IF ~(orders[o].delivery_code = delivery_code_input)
         THEN ERR_INVALID_DELIVERY_CODE
    ELSE 0

\* The delivery that wipes the used delivery code from the order.
DeliveredOrder_ClearsCode(order, current_time) ==
    [order EXCEPT !.status = ESCROW_STATUS_DELIVERED,
                  !.delivery_code = <<>>,
                  !.delivered_at = current_time]

DeliveredOrder(order, current_time) ==
    [order EXCEPT !.status = ESCROW_STATUS_DELIVERED,
                  !.delivered_at = current_time]


\* confirm_delivery_and_release_funds without the check of the status.
ConfirmErr_AnyStatus(buyer_addr, o, receiving_code_input) ==
    IF ~OrderExists(o) THEN ERR_ESCROW_ORDER_NOT_FOUND
    ELSE IF ~(orders[o].buyer_wallet = buyer_addr)
         THEN ERR_ONLY_BUYER_CAN_CONFIRM
    ELSE IF ~(orders[o].receiving_code = receiving_code_input)
         THEN ERR_INVALID_RECEIVING_CODE
    ELSE 0

\* confirm_delivery_and_release_funds rejecting only a Holding order.
ConfirmErr_NotHolding(buyer_addr, o, receiving_code_input) ==
    IF ~OrderExists(o) THEN ERR_ESCROW_ORDER_NOT_FOUND
    ELSE IF ~(orders[o].buyer_wallet = buyer_addr)
         THEN ERR_ONLY_BUYER_CAN_CONFIRM
    ELSE IF orders[o].status = ESCROW_STATUS_HOLDING
         THEN ERR_ORDER_NOT_DELIVERED
    ELSE IF ~(orders[o].receiving_code = receiving_code_input)
         THEN ERR_INVALID_RECEIVING_CODE
    ELSE 0

\* confirm_delivery_and_release_funds checking the status before the caller.
ConfirmErr_StatusBeforeCaller(buyer_addr, o, receiving_code_input) ==
    IF ~OrderExists(o) THEN ERR_ESCROW_ORDER_NOT_FOUND
    ELSE IF ~(orders[o].status = ESCROW_STATUS_DELIVERED)
         THEN ERR_ORDER_NOT_DELIVERED
    ELSE IF ~(orders[o].buyer_wallet = buyer_addr)
         THEN ERR_ONLY_BUYER_CAN_CONFIRM
    ELSE IF ~(orders[o].receiving_code = receiving_code_input)
         THEN ERR_INVALID_RECEIVING_CODE
    ELSE 0

ConfirmErr(buyer_addr, o, receiving_code_input) ==
    IF ~OrderExists(o) THEN ERR_ESCROW_ORDER_NOT_FOUND
    ELSE IF ~(orders[o].buyer_wallet = buyer_addr)
         THEN ERR_ONLY_BUYER_CAN_CONFIRM
    ELSE IF ~(orders[o].status = ESCROW_STATUS_DELIVERED)
         THEN ERR_ORDER_NOT_DELIVERED
    ELSE IF ~(orders[o].receiving_code = receiving_code_input)
         THEN ERR_INVALID_RECEIVING_CODE
    ELSE 0


\* The completion without coin::extract_all: the coin stays in the order.
CompletedOrder_KeepsFunds(order, current_time) ==
    [order EXCEPT !.status = ESCROW_STATUS_COMPLETED,
                  !.completed_at = current_time]

\* coin::extract_all leaves a zero coin in locked_funds.
CompletedOrder(order, current_time) ==
    [order EXCEPT !.locked_funds = 0,
                  !.status = ESCROW_STATUS_COMPLETED,
                  !.completed_at = current_time]


\* The release of unit_price instead of the whole locked coin.
ReleaseFunds_UnitPrice(bal, order) ==
    Deposit(bal, order.seller_wallet, order.unit_price)

\* The release recomputed from the product's current price.
ReleaseFunds_CurrentPrice(bal, order) ==
    Deposit(bal, order.seller_wallet,
            get_product_price(order.product_obj_addr) * order.quantity)

ReleaseFunds(bal, order) == Deposit(bal, order.seller_wallet, order.locked_funds)


\* cancel_escrow_order without the check of the status.
CancelErr_AnyStatus(sender_addr, o) ==
    IF ~OrderExists(o) THEN ERR_ESCROW_ORDER_NOT_FOUND
    ELSE IF ~(orders[o].buyer_wallet = sender_addr
              \/ orders[o].seller_wallet = sender_addr)
         THEN ERR_ONLY_BUYER_CAN_CONFIRM
    ELSE 0

\* cancel_escrow_order refusing only once the funds were released.
CancelErr_AllowsDelivered(sender_addr, o) ==
    IF ~OrderExists(o) THEN ERR_ESCROW_ORDER_NOT_FOUND
    ELSE IF ~(orders[o].buyer_wallet = sender_addr
              \/ orders[o].seller_wallet = sender_addr)
         THEN ERR_ONLY_BUYER_CAN_CONFIRM
    ELSE IF ~(orders[o].status = ESCROW_STATUS_HOLDING
              \/ orders[o].status = ESCROW_STATUS_DELIVERED)
         THEN ERR_CANNOT_CANCEL
    ELSE 0

CancelErr(sender_addr, o) ==
    IF ~OrderExists(o) THEN ERR_ESCROW_ORDER_NOT_FOUND
    ELSE IF ~(orders[o].buyer_wallet = sender_addr
              \/ orders[o].seller_wallet = sender_addr)
         THEN ERR_ONLY_BUYER_CAN_CONFIRM
    ELSE IF ~(orders[o].status = ESCROW_STATUS_HOLDING)
         THEN ERR_CANNOT_CANCEL
    ELSE 0

\* The cancellation that marks the refunded order Refunded.
CancelledOrder_Refunded(order, current_time) ==
    [order EXCEPT !.locked_funds = 0,
                  !.status = ESCROW_STATUS_REFUNDED]

\* The cancellation that stamps the order with the time of the refund.
CancelledOrder_Stamped(order, current_time) ==
    [order EXCEPT !.locked_funds = 0,
                  !.status = ESCROW_STATUS_CANCELLED,
                  !.completed_at = current_time]

CancelledOrder(order, current_time) ==
    [order EXCEPT !.locked_funds = 0,
                  !.status = ESCROW_STATUS_CANCELLED]


\* The refund paid to the other party of the order.
RefundBuyer_ToSeller(bal, order) ==
    Deposit(bal, order.seller_wallet, order.locked_funds)

RefundBuyer(bal, order) == Deposit(bal, order.buyer_wallet, order.locked_funds)

\* ------------------------------------------------------------------- views
get_buyer_escrow_orders(buyer_addr) ==
    IF ~buyerRegistry[buyer_addr].exists THEN <<>>
    ELSE buyerRegistry[buyer_addr].escrow_orders

get_seller_escrow_orders(seller_addr) ==
    LET index == IndexOf(sellerRegistry.seller_addresses, seller_addr)
    IN  IF index = 0 THEN <<>>
        ELSE sellerRegistry.seller_escrow_orders[index]

get_buyer_order_count(buyer_addr) ==
    IF ~buyerRegistry[buyer_addr].exists THEN 0
    ELSE buyerRegistry[buyer_addr].order_count

is_funds_locked(o) == orders[o].locked_funds > 0

\* Codes a caller submits for order o: the two stored codes and b"000000".
CodeInputs(o) ==
    IF OrderExists(o)
    THEN {orders[o].delivery_code, orders[o].receiving_code, WrongCode}
    ELSE {WrongCode}

\* ------------------------------------------------------------------- calls
\* The record of a call.  An aborted call is recorded by its function, its
\* target object and its abort code: the abort code names the assert! that
\* failed, and with it what was wrong with the caller or the inputs.
Call(op, caller, obj, code, qty, err) ==
    IF err = 0
    THEN [op |-> op, caller |-> caller, obj |-> obj, code |-> code,
          qty |-> qty, err |-> 0]
    ELSE [op |-> op, caller |-> 0, obj |-> obj, code |-> <<>>, qty |-> 0,
          err |-> err]

\* The write that is never made: the counter stays where it is.
Commit_Never(err, old, new) == old

\* The counter increment at the head of the function, before its asserts.
Commit_BeforeAsserts(err, old, new) == new

\* A transaction that aborts leaves the global storage as it was; the asserts
\* of initiate_trade_and_lock_funds all precede its first write.
Commit(err, old, new) == IF err = 0 THEN new ELSE old

\* The trade that reserves its units: quantity_left drops by the quantity.
StockAfterTrade_Reserved(prods, p, quantity) ==
    [prods EXCEPT ![p].quantity_left = @ - quantity]

\* initiate_trade_and_lock_funds reads the product (is_product_available,
\* get_product, get_product_price) and calls no function of the product
\* module that writes: the catalog after the trade is the catalog before it.
StockAfterTrade(prods, p, quantity) == prods

\* The client has read no order yet.
NotFetched == [order |-> <<>>, object |-> <<>>]

NoBuyerOrderRegistry ==
    [exists |-> FALSE, order_objects |-> <<>>, order_counter |-> 0]

\* init_module of module order: the counter at 0 and the seller registry
\* empty; no order and no buyer registry exists yet.
InitShop ==
    /\ placedOrders = <<>>
    /\ orderCounter = 0
    /\ buyerOrderRegistry = [a \in Accounts |-> NoBuyerOrderRegistry]
    /\ sellerOrderRegistry = [order_objects |-> <<>>, seller_addresses |-> <<>>]

\* The profiles every test registers before it starts: 0x123 as a Buyer and
\* 0x456 as a Seller.  0x789 has no profile yet.
FixtureProfile(a) ==
    IF a = 291 THEN [exists |-> TRUE, role |-> ROLE_BUYER, is_active |-> TRUE]
    ELSE IF a = 1110 THEN [exists |-> TRUE, role |-> ROLE_SELLER, is_active |-> TRUE]
    ELSE NoProfile

Init ==
    /\ profiles = [a \in Accounts |-> FixtureProfile(a)]
    /\ products = <<>>
    /\ balance = [a \in Accounts |-> InitialBalance]
    /\ orders = <<>>
    /\ counter = 0
    /\ buyerRegistry = [a \in Accounts |-> NoBuyerRegistry]
    /\ sellerRegistry = [seller_addresses |-> <<>>, seller_escrow_orders |-> <<>>]
    /\ now = 1
    /\ lastCall = Call("none", 0, 0, <<>>, 0, 0)
    /\ generated = NotGenerated
    /\ InitShop
    /\ fetched = NotFetched

\* The block timestamp advances between transactions.
Tick ==
    /\ now < MaxTime
    /\ now' = now + 1
    /\ UNCHANGED <<chain, lastCall, generated, shop, fetched>>

register_profile ==
    \E sender \in Accounts, role \in 1..3 :
        LET err == RegisterErr(sender, role)
        IN  /\ lastCall' = Call("register_profile", sender, 0, <<>>, 0, err)
            /\ profiles' =
                 IF err = 0
                 THEN [profiles EXCEPT ![sender] =
                         [exists |-> TRUE, role |-> role, is_active |-> TRUE]]
                 ELSE profiles
            /\ UNCHANGED <<products, balance, orders, counter, buyerRegistry,
                           sellerRegistry, now, generated, shop, fetched>>

create_product ==
    \E sender \in Accounts, price \in 0..MaxPrice,
       total_quantity \in 0..MaxQuantity :
        LET err == CreateProductErr(sender, price, total_quantity)
        IN  /\ Len(products) < MaxProducts
            /\ lastCall' = Call("create_product", sender, 0, <<>>, 0, err)
            /\ products' =
                 IF err = 0
                 THEN Append(products, NewProduct(sender, price, total_quantity))
                 ELSE products
            /\ UNCHANGED <<profiles, balance, orders, counter, buyerRegistry,
                           sellerRegistry, now, generated, shop, fetched>>

initiate_trade_and_lock_funds ==
    \E buyer \in Accounts, p \in 1..MaxProducts, quantity \in 0..MaxQuantity :
        LET err == InitiateErr(buyer, p, quantity)
            order == NewEscrowOrder(buyer, p, quantity, counter + 1, now)
            escrow_order_obj_addr == Len(orders) + 1
        IN  /\ err = 0 => Len(orders) < MaxOrders
            /\ lastCall' = Call("initiate_trade_and_lock_funds", buyer, p, <<>>,
                                quantity, err)
            /\ IF err = 0
               THEN /\ balance' = Withdraw(balance, buyer, order.total_amount)
                    /\ orders' = Append(orders, order)
                    /\ buyerRegistry' =
                         AddToBuyerRegistry(buyerRegistry, buyer,
                                            escrow_order_obj_addr)
                    /\ sellerRegistry' =
                         add_to_seller_registry(sellerRegistry,
                                                order.seller_wallet,
                                                escrow_order_obj_addr)
               ELSE UNCHANGED <<balance, orders, buyerRegistry, sellerRegistry>>
            /\ counter' = Commit(err, counter, counter + 1)
            /\ products' = Commit(err, products,
                                  StockAfterTrade(products, p, quantity))
            /\ UNCHANGED <<profiles, now, generated, shop, fetched>>

deliver_order ==
    \E seller \in Accounts, o \in 1..MaxOrders :
      \E delivery_code_input \in CodeInputs(o) :
        LET err == DeliverErr(seller, o, delivery_code_input)
        IN  /\ lastCall' = Call("deliver_order", seller, o, delivery_code_input,
                                0, err)
            /\ orders' =
                 IF err = 0
                 THEN [orders EXCEPT ![o] = DeliveredOrder(@, now)]
                 ELSE orders
            /\ UNCHANGED <<profiles, products, balance, counter, buyerRegistry,
                           sellerRegistry, now, generated, shop, fetched>>

confirm_delivery_and_release_funds ==
    \E buyer \in Accounts, o \in 1..MaxOrders :
      \E receiving_code_input \in CodeInputs(o) :
        LET err == ConfirmErr(buyer, o, receiving_code_input)
        IN  /\ lastCall' = Call("confirm_delivery_and_release_funds", buyer, o,
                                receiving_code_input, 0, err)
            /\ IF err = 0
               THEN /\ balance' = ReleaseFunds(balance, orders[o])
                    /\ orders' = [orders EXCEPT ![o] = CompletedOrder(@, now)]
               ELSE UNCHANGED <<balance, orders>>
            /\ UNCHANGED <<profiles, products, counter, buyerRegistry,
                           sellerRegistry, now, generated, shop, fetched>>

cancel_escrow_order ==
    \E sender \in Accounts, o \in 1..MaxOrders :
        LET err == CancelErr(sender, o)
        IN  /\ lastCall' = Call("cancel_escrow_order", sender, o, <<>>, 0, err)
            /\ IF err = 0
               THEN /\ balance' = RefundBuyer(balance, orders[o])
                    /\ orders' = [orders EXCEPT ![o] = CancelledOrder(@, now)]
               ELSE UNCHANGED <<balance, orders>>
            /\ UNCHANGED <<profiles, products, counter, buyerRegistry,
                           sellerRegistry, now, generated, shop, fetched>>

Next ==
    \/ Tick
    \/ register_profile
    \/ create_product
    \/ initiate_trade_and_lock_funds
    \/ deliver_order
    \/ confirm_delivery_and_release_funds
    \/ cancel_escrow_order

Spec == Init /\ [][Next]_vars

\* ------------------------------------------------------ cooperating parties
\* The seller of order o delivers it with the stored delivery code.
DeliverWithStoredCode(o) ==
    /\ deliver_order
    /\ lastCall'.obj = o
    /\ lastCall'.err = 0

\* The buyer of order o confirms it with the stored receiving code.
ConfirmWithStoredCode(o) ==
    /\ confirm_delivery_and_release_funds
    /\ lastCall'.obj = o
    /\ lastCall'.err = 0

\* The escrow with a seller who does deliver what can be delivered and a
\* buyer who does confirm what was delivered: the calls of the escrow on the
\* products of the registered seller, with every party free to call anything
\* at any time.
NextFair ==
    \/ create_product
    \/ initiate_trade_and_lock_funds
    \/ deliver_order
    \/ confirm_delivery_and_release_funds
    \/ cancel_escrow_order

SpecFair ==
    /\ Init
    /\ [][NextFair]_vars
    /\ \A o \in 1..MaxOrders :
         /\ WF_vars(DeliverWithStoredCode(o))
         /\ WF_vars(ConfirmWithStoredCode(o))

\* -------------------------------------------------------- catalog operations
\* The asserts update_product, update_inventory, reduce_inventory,
\* set_product_availability and delete_product share.
ProductOwnerErr(sender, p) ==
    IF ~ProductExists(p) THEN ERR_PRODUCT_NOT_FOUND
    ELSE IF ~(products[p].seller_wallet = sender) THEN ERR_NOT_PRODUCT_OWNER
    ELSE IF products[p].is_deleted THEN ERR_PRODUCT_ALREADY_DELETED
    ELSE 0

\* update_product without the check of the price: a product can be made free.
UpdateProductErr_AnyPrice(sender, p, price) ==
    IF ProductOwnerErr(sender, p) # 0 THEN ProductOwnerErr(sender, p)
    ELSE 0

UpdateProductErr(sender, p, price) ==
    IF ProductOwnerErr(sender, p) # 0 THEN ProductOwnerErr(sender, p)
    ELSE IF ~(price > 0) THEN ERR_INVALID_PRICE
    ELSE 0

ReduceInventoryErr(sender, p, quantity_to_reduce) ==
    IF ProductOwnerErr(sender, p) # 0 THEN ProductOwnerErr(sender, p)
    ELSE IF ~(products[p].quantity_left >= quantity_to_reduce)
         THEN ERR_INSUFFICIENT_QUANTITY
    ELSE 0

update_product ==
    \E sender \in Accounts, p \in 1..MaxProducts, price \in 0..MaxPrice :
        LET err == UpdateProductErr(sender, p, price)
        IN  /\ lastCall' = Call("update_product", sender, p, <<>>, price, err)
            /\ products' =
                 IF err = 0
                 THEN [products EXCEPT ![p].price = price]
                 ELSE products
            /\ UNCHANGED <<profiles, balance, orders, counter, buyerRegistry,
                           sellerRegistry, now, generated, shop, fetched>>

update_inventory ==
    \E sender \in Accounts, p \in 1..MaxProducts,
       quantity_to_add \in 0..MaxQuantity :
        LET err == ProductOwnerErr(sender, p)
        IN  /\ err = 0
              => products[p].total_quantity + quantity_to_add <= MaxQuantity
            /\ lastCall' = Call("update_inventory", sender, p, <<>>,
                                quantity_to_add, err)
            /\ products' =
                 IF err = 0
                 THEN [products EXCEPT
                         ![p].quantity_left = @ + quantity_to_add,
                         ![p].total_quantity = @ + quantity_to_add]
                 ELSE products
            /\ UNCHANGED <<profiles, balance, orders, counter, buyerRegistry,
                           sellerRegistry, now, generated, shop, fetched>>

reduce_inventory ==
    \E sender \in Accounts, p \in 1..MaxProducts,
       quantity_to_reduce \in 0..MaxQuantity :
        LET err == ReduceInventoryErr(sender, p, quantity_to_reduce)
        IN  /\ lastCall' = Call("reduce_inventory", sender, p, <<>>,
                                quantity_to_reduce, err)
            /\ products' =
                 IF err = 0
                 THEN [products EXCEPT
                         ![p].quantity_left = @ - quantity_to_reduce]
                 ELSE products
            /\ UNCHANGED <<profiles, balance, orders, counter, buyerRegistry,
                           sellerRegistry, now, generated, shop, fetched>>

set_product_availability ==
    \E sender \in Accounts, p \in 1..MaxProducts, is_available \in BOOLEAN :
        LET err == ProductOwnerErr(sender, p)
        IN  /\ lastCall' = Call("set_product_availability", sender, p, <<>>,
                                0, err)
            /\ products' =
                 IF err = 0
                 THEN [products EXCEPT ![p].is_available = is_available]
                 ELSE products
            /\ UNCHANGED <<profiles, balance, orders, counter, buyerRegistry,
                           sellerRegistry, now, generated, shop, fetched>>

delete_product ==
    \E sender \in Accounts, p \in 1..MaxProducts :
        LET err == ProductOwnerErr(sender, p)
        IN  /\ lastCall' = Call("delete_product", sender, p, <<>>, 0, err)
            /\ products' =
                 IF err = 0
                 THEN [products EXCEPT ![p].is_deleted = TRUE,
                                       ![p].is_available = FALSE]
                 ELSE products
            /\ UNCHANGED <<profiles, balance, orders, counter, buyerRegistry,
                           sellerRegistry, now, generated, shop, fetched>>

\* The marketplace with its catalog management: the escrow entry functions
\* together with the entry functions of product, which change what
\* initiate_trade_and_lock_funds reads.
NextCatalog ==
    \/ create_product
    \/ update_product
    \/ update_inventory
    \/ reduce_inventory
    \/ set_product_availability
    \/ delete_product
    \/ initiate_trade_and_lock_funds
    \/ deliver_order
    \/ confirm_delivery_and_release_funds
    \/ cancel_escrow_order

SpecCatalog == Init /\ [][NextCatalog]_vars

\* -------------------------------------------------------- profile operations
\* update_profile, deactivate_profile and reactivate_profile share one assert:
\* the sender has a profile.
ProfileOwnerErr(sender) ==
    IF ~profiles[sender].exists THEN ERR_PROFILE_NOT_FOUND ELSE 0

\* The update that lets the owner switch to the other role.
UpdatedProfile_SwitchesRole(profile) ==
    [profile EXCEPT !.role = IF @ = ROLE_BUYER THEN ROLE_SELLER ELSE ROLE_BUYER]

\* update_profile writes name, country, email, physical_address, bio and
\* updated_at; it has no role parameter and writes neither role nor is_active.
UpdatedProfile(profile) == profile

update_profile ==
    \E sender \in Accounts :
        LET err == ProfileOwnerErr(sender)
        IN  /\ lastCall' = Call("update_profile", sender, 0, <<>>, 0, err)
            /\ profiles' =
                 IF err = 0
                 THEN [profiles EXCEPT ![sender] = UpdatedProfile(@)]
                 ELSE profiles
            /\ UNCHANGED <<products, balance, orders, counter, buyerRegistry,
                           sellerRegistry, now, generated, shop, fetched>>

deactivate_profile ==
    \E sender \in Accounts :
        LET err == ProfileOwnerErr(sender)
        IN  /\ lastCall' = Call("deactivate_profile", sender, 0, <<>>, 0, err)
            /\ profiles' =
                 IF err = 0
                 THEN [profiles EXCEPT ![sender].is_active = FALSE]
                 ELSE profiles
            /\ UNCHANGED <<products, balance, orders, counter, buyerRegistry,
                           sellerRegistry, now, generated, shop, fetched>>

reactivate_profile ==
    \E sender \in Accounts :
        LET err == ProfileOwnerErr(sender)
        IN  /\ lastCall' = Call("reactivate_profile", sender, 0, <<>>, 0, err)
            /\ profiles' =
                 IF err = 0
                 THEN [profiles EXCEPT ![sender].is_active = TRUE]
                 ELSE profiles
            /\ UNCHANGED <<products, balance, orders, counter, buyerRegistry,
                           sellerRegistry, now, generated, shop, fetched>>

is_profile_active(user_addr) ==
    IF ~profiles[user_addr].exists THEN FALSE
    ELSE profiles[user_addr].is_active

\* The registry next to the escrow, all within one block: accounts register,
\* edit, deactivate and reactivate their profiles between the calls of the
\* escrow.
NextProfiles ==
    \/ register_profile
    \/ update_profile
    \/ deactivate_profile
    \/ reactivate_profile
    \/ create_product
    \/ initiate_trade_and_lock_funds
    \/ deliver_order
    \/ confirm_delivery_and_release_funds
    \/ cancel_escrow_order

SpecProfiles == Init /\ [][NextProfiles]_vars

\* ------------------------------------------------------------ module order
PlacedOrderExists(o) == o \in 1..Len(placedOrders)

PlaceOrderErr(buyer_addr, p, quantity) ==
    IF ~profile_exists(buyer_addr) THEN ERR_ORDER_USER_PROFILE_NOT_FOUND
    ELSE IF ~is_buyer(buyer_addr) THEN ERR_ONLY_BUYER_CAN_ORDER
    ELSE IF ~(quantity > 0) THEN ERR_ORDER_INVALID_QUANTITY
    ELSE IF ~is_product_available(p) THEN ERR_ORDER_PRODUCT_NOT_AVAILABLE
    ELSE IF ~(products[p].quantity_left >= quantity)
         THEN ERR_ORDER_INSUFFICIENT_PRODUCT_QUANTITY
    ELSE 0

NewOrder(buyer_addr, p, quantity, order_id) ==
    [order_id |-> order_id,
     product_obj_addr |-> p,
     buyer_wallet |-> buyer_addr,
     seller_wallet |-> products[p].seller_wallet,
     quantity |-> quantity,
     unit_price |-> get_product_price(p),
     total_amount |-> get_product_price(p) * quantity,
     status |-> ORDER_STATUS_PENDING,
     delivered_at |-> 0]

\* The workflow that lets a Refunded order be reopened as Pending.
is_valid_status_transition_ReopensRefunded(old_status, new_status) ==
    IF old_status = ORDER_STATUS_PENDING
    THEN new_status = ORDER_STATUS_CONFIRMED
           \/ new_status = ORDER_STATUS_CANCELLED
    ELSE IF old_status = ORDER_STATUS_CONFIRMED
    THEN new_status = ORDER_STATUS_PROCESSING
           \/ new_status = ORDER_STATUS_CANCELLED
    ELSE IF old_status = ORDER_STATUS_PROCESSING
    THEN new_status = ORDER_STATUS_SHIPPED
           \/ new_status = ORDER_STATUS_CANCELLED
    ELSE IF old_status = ORDER_STATUS_SHIPPED
    THEN new_status = ORDER_STATUS_DELIVERED
    ELSE IF old_status = ORDER_STATUS_DELIVERED
    THEN new_status = ORDER_STATUS_REFUNDED
    ELSE IF old_status = ORDER_STATUS_REFUNDED
    THEN new_status = ORDER_STATUS_PENDING
    ELSE FALSE

is_valid_status_transition(old_status, new_status) ==
    IF old_status = ORDER_STATUS_PENDING
    THEN new_status = ORDER_STATUS_CONFIRMED
           \/ new_status = ORDER_STATUS_CANCELLED
    ELSE IF old_status = ORDER_STATUS_CONFIRMED
    THEN new_status = ORDER_STATUS_PROCESSING
           \/ new_status = ORDER_STATUS_CANCELLED
    ELSE IF old_status = ORDER_STATUS_PROCESSING
    THEN new_status = ORDER_STATUS_SHIPPED
           \/ new_status = ORDER_STATUS_CANCELLED
    ELSE IF old_status = ORDER_STATUS_SHIPPED
    THEN new_status = ORDER_STATUS_DELIVERED
    ELSE IF old_status = ORDER_STATUS_DELIVERED
    THEN new_status = ORDER_STATUS_REFUNDED
    ELSE FALSE

UpdateOrderStatusErr(sender_addr, o, new_status) ==
    IF ~PlacedOrderExists(o) THEN ERR_ORDER_NOT_FOUND
    ELSE IF ~(placedOrders[o].seller_wallet = sender_addr)
         THEN ERR_ONLY_SELLER_CAN_UPDATE
    ELSE IF ~(placedOrders[o].status # ORDER_STATUS_CANCELLED)
         THEN ERR_ORDER_ALREADY_CANCELLED
    ELSE IF ~is_valid_status_transition(placedOrders[o].status, new_status)
         THEN ERR_INVALID_STATUS_TRANSITION
    ELSE 0

StatusUpdatedOrder(order, new_status, current_time) ==
    [order EXCEPT !.status = new_status,
                  !.delivered_at = IF new_status = ORDER_STATUS_DELIVERED
                                   THEN current_time ELSE @]

CancelOrderErr(sender_addr, o) ==
    IF ~PlacedOrderExists(o) THEN ERR_ORDER_NOT_FOUND
    ELSE LET order == placedOrders[o]
             is_buyer_of == order.buyer_wallet = sender_addr
             is_seller_of == order.seller_wallet = sender_addr
         IN  IF ~(is_buyer_of \/ is_seller_of) THEN ERR_NOT_ORDER_OWNER
             ELSE IF ~(order.status # ORDER_STATUS_CANCELLED)
                  THEN ERR_ORDER_ALREADY_CANCELLED
             ELSE IF is_buyer_of
                     /\ ~(order.status = ORDER_STATUS_PENDING
                          \/ order.status = ORDER_STATUS_CONFIRMED)
                  THEN ERR_CANNOT_CANCEL_ORDER
             ELSE IF is_seller_of
                     /\ ~(order.status # ORDER_STATUS_SHIPPED
                          /\ order.status # ORDER_STATUS_DELIVERED)
                  THEN ERR_CANNOT_CANCEL_ORDER
             ELSE 0

CancelledPlacedOrder(order) == [order EXCEPT !.status = ORDER_STATUS_CANCELLED]

UpdateShippingAddressErr(buyer_addr, o) ==
    IF ~PlacedOrderExists(o) THEN ERR_ORDER_NOT_FOUND
    ELSE IF ~(placedOrders[o].buyer_wallet = buyer_addr)
         THEN ERR_NOT_ORDER_OWNER
    ELSE IF ~(placedOrders[o].status = ORDER_STATUS_PENDING
              \/ placedOrders[o].status = ORDER_STATUS_CONFIRMED
              \/ placedOrders[o].status = ORDER_STATUS_PROCESSING)
         THEN ERR_CANNOT_CANCEL_ORDER
    ELSE 0

\* Values passed as new_status: the seven statuses, 0 and 8.
StatusInputs == 0..(ORDER_STATUS_REFUNDED + 1)

place_order ==
    \E buyer \in Accounts, p \in 1..MaxProducts, quantity \in 0..MaxQuantity :
        LET err == PlaceOrderErr(buyer, p, quantity)
            order_id == orderCounter + 1
            order_obj_addr == Len(placedOrders) + 1
        IN  /\ err = 0 => Len(placedOrders) < MaxOrders
            /\ lastCall' = Call("place_order", buyer, p, <<>>, quantity, err)
            /\ IF err = 0
               THEN /\ orderCounter' = order_id
                    /\ placedOrders' =
                         Append(placedOrders,
                                NewOrder(buyer, p, quantity, order_id))
                    /\ buyerOrderRegistry' =
                         [buyerOrderRegistry EXCEPT ![buyer] =
                            [exists |-> TRUE,
                             order_objects |->
                               Append(@.order_objects, order_obj_addr),
                             order_counter |-> @.order_counter + 1]]
                    /\ sellerOrderRegistry' =
                         [order_objects |->
                            Append(sellerOrderRegistry.order_objects,
                                   order_obj_addr),
                          seller_addresses |->
                            Append(sellerOrderRegistry.seller_addresses,
                                   products[p].seller_wallet)]
               ELSE UNCHANGED shop
            /\ UNCHANGED <<chain, now, generated, fetched>>

update_order_status ==
    \E sender \in Accounts, o \in 1..MaxOrders, new_status \in StatusInputs :
        LET err == UpdateOrderStatusErr(sender, o, new_status)
        IN  /\ lastCall' = Call("update_order_status", sender, o, <<>>,
                                new_status, err)
            /\ placedOrders' =
                 IF err = 0
                 THEN [placedOrders EXCEPT
                         ![o] = StatusUpdatedOrder(@, new_status, now)]
                 ELSE placedOrders
            /\ UNCHANGED <<chain, now, generated, fetched, orderCounter,
                           buyerOrderRegistry, sellerOrderRegistry>>

cancel_order ==
    \E sender \in Accounts, o \in 1..MaxOrders :
        LET err == CancelOrderErr(sender, o)
        IN  /\ lastCall' = Call("cancel_order", sender, o, <<>>, 0, err)
            /\ placedOrders' =
                 IF err = 0
                 THEN [placedOrders EXCEPT ![o] = CancelledPlacedOrder(@)]
                 ELSE placedOrders
            /\ UNCHANGED <<chain, now, generated, fetched, orderCounter,
                           buyerOrderRegistry, sellerOrderRegistry>>

\* update_shipping_address writes shipping_address and updated_at, which the
\* model leaves out of the order: the call is recorded, the order stays.
update_shipping_address ==
    \E buyer \in Accounts, o \in 1..MaxOrders :
        LET err == UpdateShippingAddressErr(buyer, o)
        IN  /\ lastCall' = Call("update_shipping_address", buyer, o, <<>>, 0,
                                err)
            /\ UNCHANGED <<chain, now, generated, shop, fetched>>

\* The order module over the catalog of one seller: products are created,
\* orders placed, moved along the workflow and cancelled; the block
\* timestamp advances between the calls.
NextOrder ==
    \/ Tick
    \/ create_product
    \/ place_order
    \/ update_order_status
    \/ cancel_order
    \/ update_shipping_address

SpecOrder == Init /\ [][NextOrder]_vars

\* ------------------------------------------------ the code generators alone
\* Order ids given to the generators: the first ids, and the ids up to the
\* points where the seeds of the two generators pass their modulus (id + byte
\* at 900000, id * 7 + byte at 9000).
IdInputs ==
    UNION {(c - MaxGenId)..c : c \in {MaxGenId + 1, (9000 \div 7) + 1, 900000}}

\* The first byte of the sha3_256 hash of an address.
HashBytes == 0..255

\* The generators are private functions of the module that read nothing but
\* their two arguments.  Here they are applied to an id and to an address
\* given by the first byte of its hash.
InitCodes ==
    /\ Init!1 /\ Init!2 /\ Init!3 /\ Init!4 /\ Init!5 /\ Init!6 /\ Init!7
    /\ Init!8 /\ Init!9 /\ InitShop /\ fetched = NotFetched
    /\ \E id \in IdInputs, b \in HashBytes :
         generated = [NotGenerated EXCEPT !.escrow_order_id = id,
                                          !.first_byte = b]

apply_generate_6_digit_code ==
    /\ generated' =
         [generated EXCEPT
            !.fn = "generate_6_digit_code",
            !.code = six_digit_code(generated.escrow_order_id,
                                    generated.first_byte)]
    /\ UNCHANGED <<chain, now, lastCall, shop, fetched>>

apply_generate_4_digit_code ==
    /\ generated' =
         [generated EXCEPT
            !.fn = "generate_4_digit_code",
            !.code = four_digit_code(generated.escrow_order_id,
                                     generated.first_byte)]
    /\ UNCHANGED <<chain, now, lastCall, shop, fetched>>

NextCodes ==
    \/ Tick
    \/ apply_generate_6_digit_code
    \/ apply_generate_4_digit_code

SpecCodes == InitCodes /\ [][NextCodes]_vars

\* ---------------------------------------------------------------- the client
\* The values of a view response as the client receives them: a u64 as the
\* string of its decimal digits, an address as "0x" and its hexadecimal
\* digits, a String as it is, a u8 as a number.
U64Json(n) == [type |-> "string", val |-> u64_to_string(n)]

HexDigit(d) == IF d < 10 THEN 48 + d ELSE 87 + d

RECURSIVE HexDigits(_)
HexDigits(n) ==
    IF n = 0 THEN <<>> ELSE Append(HexDigits(n \div 16), HexDigit(n % 16))

AddressJson(addr) ==
    [type |-> "string", val |-> <<48, 120>> \o HexDigits(addr)]

StringJson(s) == [type |-> "string", val |-> s]

U8Json(n) == [type |-> "number", val |-> <<n>>]

\* The tuple get_escrow_order returns, in the order of its return statement.
get_escrow_order(escrow_order) ==
    <<U64Json(escrow_order.escrow_order_id),
      AddressJson(escrow_order.product_obj_addr),
      U64Json(escrow_order.quantity),
      AddressJson(escrow_order.buyer_wallet),
      AddressJson(escrow_order.seller_wallet),
      U64Json(escrow_order.unit_price),
      U64Json(escrow_order.total_amount),
      StringJson(escrow_order.transaction_hash),
      StringJson(escrow_order.delivery_code),
      StringJson(escrow_order.receiving_code),
      U8Json(escrow_order.status),
      U64Json(escrow_order.locked_funds),
      StringJson(escrow_order.shipping_address),
      U64Json(escrow_order.created_at),
      U64Json(escrow_order.updated_at),
      U64Json(escrow_order.delivered_at),
      U64Json(escrow_order.completed_at)>>

\* parseInt of JavaScript gives NaN for a text that starts with no digit.
NaN == 0 - 1

IsHexDigit(c) == c \in 48..57 \/ c \in 97..102 \/ c \in 65..70

HexValue(c) ==
    IF c \in 48..57 THEN c - 48 ELSE IF c \in 97..102 THEN c - 87 ELSE c - 55

\* The longest prefix of text made of digits, hexadecimal or decimal.
RECURSIVE DigitPrefix(_, _)
DigitPrefix(text, hex) ==
    IF text = <<>> THEN <<>>
    ELSE IF (hex /\ IsHexDigit(Head(text))) \/ (~hex /\ Head(text) \in 48..57)
    THEN <<Head(text)>> \o DigitPrefix(Tail(text), hex)
    ELSE <<>>

RECURSIVE ParseDigits(_, _)
ParseDigits(digits, radix) ==
    IF digits = <<>> THEN 0
    ELSE ParseDigits(SubSeq(digits, 1, Len(digits) - 1), radix) * radix
           + HexValue(digits[Len(digits)])

\* parseInt(text) without a radix: leading blanks are skipped, a text that
\* starts with 0x or 0X is read as hexadecimal, any other as decimal; the
\* digits are read up to the first character that is none.
RECURSIVE parseIntText(_)
parseIntText(text) ==
    IF text # <<>> /\ Head(text) = 32 THEN parseIntText(Tail(text))
    ELSE LET hex == Len(text) >= 2 /\ text[1] = 48 /\ text[2] \in {120, 88}
             digits == IF hex THEN DigitPrefix(SubSeq(text, 3, Len(text)), TRUE)
                       ELSE DigitPrefix(text, FALSE)
         IN  IF digits = <<>> THEN NaN
             ELSE ParseDigits(digits, IF hex THEN 16 ELSE 10)

\* parseInt turns its argument into a string first.
parseInt(json) ==
    IF json.type = "number" THEN json.val[1] ELSE parseIntText(json.val)

\* The object getEscrowOrder builds: the response is destructured by
\* position into fifteen names, and the numeric ones go through parseInt.
getEscrowOrder(escrowOrderAddress, result) ==
    [escrowOrderAddress |-> escrowOrderAddress,
     orderId |-> parseInt(result[1]),
     productAddress |-> result[2],
     buyerAddress |-> result[3],
     sellerAddress |-> result[4],
     quantity |-> parseInt(result[5]),
     totalPrice |-> parseInt(result[6]),
     lockedFunds |-> parseInt(result[7]),
     shippingAddress |-> result[8],
     status |-> result[9],
     deliveryCode |-> result[10],
     receivingCode |-> result[11],
     transactionHash |-> result[12],
     createdAt |-> parseInt(result[13]),
     deliveredAt |-> parseInt(result[14]),
     confirmedAt |-> parseInt(result[15])]

\* "12 Main St" and "Main St"
ShippingAddresses ==
    {<<49, 50, 32, 77, 97, 105, 110, 32, 83, 116>>,
     <<77, 97, 105, 110, 32, 83, 116>>}

\* "0xtx1"
TransactionHashes == {<<48, 120, 116, 120, 49>>}

\* The timestamps an order can carry in each status: created, then last
\* updated, delivered and completed.
OrderTimes(status) ==
    LET T == 1..MaxTime
    IN  IF status = ESCROW_STATUS_HOLDING
        THEN {<<c, c, 0, 0>> : c \in T}
        ELSE IF status = ESCROW_STATUS_CANCELLED
        THEN {t \in T \X T \X {0} \X {0} : t[1] <= t[2]}
        ELSE IF status = ESCROW_STATUS_DELIVERED
        THEN {t \in T \X T \X T \X {0} : t[1] <= t[2] /\ t[3] = t[2]}
        ELSE {t \in T \X T \X T \X T :
                t[1] <= t[3] /\ t[3] <= t[4] /\ t[2] = t[4]}

\* The orders the chain can hold: every field as initiate, deliver, confirm
\* and cancel leave it.
EscrowOrderInputs ==
    UNION {
      {[escrow_order_id |-> id,
        product_obj_addr |-> 1,
        quantity |-> quantity,
        buyer_wallet |-> buyer,
        seller_wallet |-> 1110,
        unit_price |-> unit_price,
        total_amount |-> unit_price * quantity,
        transaction_hash |-> hash,
        delivery_code |-> generate_6_digit_code(id, buyer),
        receiving_code |-> generate_4_digit_code(id, 1110),
        status |-> status,
        locked_funds |-> IF status \in {ESCROW_STATUS_HOLDING,
                                        ESCROW_STATUS_DELIVERED}
                         THEN unit_price * quantity ELSE 0,
        shipping_address |-> shipping,
        created_at |-> t[1],
        updated_at |-> t[2],
        delivered_at |-> t[3],
        completed_at |-> t[4]] :
          id \in 1..MaxOrders, quantity \in 1..MaxQuantity,
          buyer \in {291, 1929}, unit_price \in 1..MaxPrice,
          hash \in TransactionHashes, shipping \in ShippingAddresses,
          t \in OrderTimes(status)} :
      status \in {ESCROW_STATUS_HOLDING, ESCROW_STATUS_DELIVERED,
                  ESCROW_STATUS_COMPLETED, ESCROW_STATUS_CANCELLED}}

InitClient ==
    /\ Init!1 /\ Init!2 /\ Init!3 /\ Init!4 /\ Init!5 /\ Init!6 /\ Init!7
    /\ Init!8 /\ Init!9 /\ Init!10 /\ InitShop
    /\ \E escrow_order \in EscrowOrderInputs :
         fetched = [NotFetched EXCEPT !.order = <<escrow_order>>]

\* The client reads the order: the view is evaluated and its tuple handed to
\* getEscrowOrder.
apply_getEscrowOrder ==
    /\ fetched.order # <<>>
    /\ fetched' =
         [fetched EXCEPT
            !.object =
              <<getEscrowOrder(AddressJson(fetched.order[1].escrow_order_id),
                               get_escrow_order(fetched.order[1]))>>]
    /\ UNCHANGED <<chain, now, lastCall, generated, shop>>

NextClient ==
    \/ Tick
    \/ apply_getEscrowOrder

SpecClient == InitClient /\ [][NextClient]_vars

\* ------------------------------------------------------------- vocabulary
OrderAddrs == 1..Len(orders)

Active == {ESCROW_STATUS_HOLDING, ESCROW_STATUS_DELIVERED}

Terminal == {ESCROW_STATUS_COMPLETED, ESCROW_STATUS_CANCELLED}

RECURSIVE SumLocked(_)
SumLocked(n) == IF n = 0 THEN 0 ELSE orders[n].locked_funds + SumLocked(n - 1)

RECURSIVE SumBalance(_)
SumBalance(S) ==
    IF S = {} THEN 0
    ELSE LET a == CHOOSE x \in S : TRUE IN balance[a] + SumBalance(S \ {a})

Succeeded(op) == lastCall.op = op /\ lastCall.err = 0

\* ---------------------------------------------------------------------- C1
\* C1: for every escrow order in every reachable state, locked_funds equals
\* total_amount while the status is Holding or Delivered and equals 0 once
\* the status is Completed, Cancelled or Refunded; no order ever holds a
\* partial amount.
C1_LockedFundsFollowStatus ==
    \A o \in OrderAddrs :
        /\ orders[o].status \in Active
              => orders[o].locked_funds = orders[o].total_amount
        /\ orders[o].status \in Terminal \cup {ESCROW_STATUS_REFUNDED}
              => orders[o].locked_funds = 0
        /\ ~(0 < orders[o].locked_funds
             /\ orders[o].locked_funds < orders[o].total_amount)

\* One order was released and another cancelled while a third state of
\* custody, Delivered with the funds still locked, is seen on the way.
C1_Witness ==
    \E o1, o2 \in OrderAddrs :
        /\ orders[o1].status = ESCROW_STATUS_COMPLETED
        /\ orders[o1].locked_funds = 0
        /\ orders[o1].total_amount = 2
        /\ orders[o2].status = ESCROW_STATUS_DELIVERED
        /\ orders[o2].locked_funds = orders[o2].total_amount

\* ---------------------------------------------------------------------- C2
\* C2: conservation of value.  The balances of all accounts plus the funds
\* locked in all orders always add up to the initial sum of the balances;
\* an initiate withdraws exactly the order's total_amount from the buyer, and
\* the locked funds of an order leave it once, whole, to the seller (on
\* Completed) or to the buyer (on Cancelled).
C2_ValueConserved ==
    SumBalance(Accounts) + SumLocked(Len(orders))
        = Cardinality(Accounts) * InitialBalance

C2_MovedOnceAndWhole ==
    /\ Len(orders') >= Len(orders)
    /\ \A o \in 1..Len(orders') :
        IF o > Len(orders)
        THEN /\ orders'[o].locked_funds = orders'[o].total_amount
             /\ balance'[orders'[o].buyer_wallet]
                   = balance[orders'[o].buyer_wallet] - orders'[o].total_amount
             /\ \A a \in Accounts \ {orders'[o].buyer_wallet} :
                   balance'[a] = balance[a]
        ELSE orders'[o].locked_funds # orders[o].locked_funds
             => /\ orders[o].locked_funds = orders[o].total_amount
                /\ orders'[o].locked_funds = 0
                /\ \E to \in Accounts :
                     /\ \/ /\ orders'[o].status = ESCROW_STATUS_COMPLETED
                           /\ to = orders[o].seller_wallet
                        \/ /\ orders'[o].status = ESCROW_STATUS_CANCELLED
                           /\ to = orders[o].buyer_wallet
                     /\ balance'[to] = balance[to] + orders[o].total_amount
                     /\ \A a \in Accounts \ {to} : balance'[a] = balance[a]

\* C2: the sum is conserved in every state and every step moves an order's
\* funds once and whole.
C2_Conservation == []C2_ValueConserved /\ [][C2_MovedOnceAndWhole]_vars

\* Both ends of the lifecycle: one order paid out to the seller, one refunded
\* to the buyer.
C2_Witness ==
    \E o1, o2 \in OrderAddrs :
        /\ orders[o1].status = ESCROW_STATUS_COMPLETED
        /\ orders[o2].status = ESCROW_STATUS_CANCELLED
        /\ balance[orders[o1].seller_wallet]
              = InitialBalance + orders[o1].total_amount

\* ------------------------------------------------- steps that are calls
OP_DELIVER == "deliver_order"

OP_CONFIRM == "confirm_delivery_and_release_funds"

OP_CANCEL == "cancel_escrow_order"

TransitionOps == {OP_DELIVER, OP_CONFIRM, OP_CANCEL}

\* A step that is a call of op: every step but Tick is a call, and Tick is the
\* one step that moves the clock.
IsCall(op) == now' = now /\ lastCall'.op = op

\* ---------------------------------------------------------------------- C3
\* C3: the funds of an order reach the seller only through a successful
\* confirm_delivery_and_release_funds by the order's buyer with the stored
\* receiving code, on an order that a successful deliver_order by the order's
\* seller, with the stored delivery code, made Delivered before: an order is
\* created Holding, becomes Delivered only by that deliver and Completed only
\* by that confirm from Delivered, and no other step raises the balance of
\* an order's seller.
C3_Step ==
    /\ \A o \in 1..Len(orders') :
         IF o > Len(orders)
         THEN orders'[o].status = ESCROW_STATUS_HOLDING
         ELSE /\ (/\ orders'[o].status = ESCROW_STATUS_COMPLETED
                  /\ orders[o].status # ESCROW_STATUS_COMPLETED)
                   => /\ orders[o].status = ESCROW_STATUS_DELIVERED
                      /\ lastCall' = [op |-> OP_CONFIRM,
                                      caller |-> orders[o].buyer_wallet,
                                      obj |-> o,
                                      code |-> orders[o].receiving_code,
                                      qty |-> 0, err |-> 0]
              /\ (/\ orders'[o].status = ESCROW_STATUS_DELIVERED
                  /\ orders[o].status # ESCROW_STATUS_DELIVERED)
                   => /\ orders[o].status = ESCROW_STATUS_HOLDING
                      /\ lastCall' = [op |-> OP_DELIVER,
                                      caller |-> orders[o].seller_wallet,
                                      obj |-> o,
                                      code |-> orders[o].delivery_code,
                                      qty |-> 0, err |-> 0]
    /\ \A o \in OrderAddrs :
         LET s == orders[o].seller_wallet
         IN  balance'[s] > balance[s]
               => \E t \in OrderAddrs :
                    /\ orders[t].seller_wallet = s
                    /\ orders[t].status = ESCROW_STATUS_DELIVERED
                    /\ orders'[t].status = ESCROW_STATUS_COMPLETED
                    /\ IsCall(OP_CONFIRM)
                    /\ lastCall'.obj = t
                    /\ balance'[s] = balance[s] + orders[t].total_amount

\* C3: every step pays a seller only by the buyer's confirm of an order that
\* the seller's deliver made Delivered.
C3_PaidOnlyAfterDelivery == [][C3_Step]_vars

\* The buyer's confirm has just paid the seller of a delivered order.
C3_Witness ==
    /\ Succeeded(OP_CONFIRM)
    /\ lastCall.caller = orders[lastCall.obj].buyer_wallet
    /\ lastCall.code = orders[lastCall.obj].receiving_code
    /\ orders[lastCall.obj].status = ESCROW_STATUS_COMPLETED
    /\ orders[lastCall.obj].delivered_at # 0
    /\ balance[orders[lastCall.obj].seller_wallet]
          = InitialBalance + orders[lastCall.obj].total_amount

\* ---------------------------------------------------------------------- C4
\* C4: the status of an order changes only along Holding -> Delivered (by
\* deliver_order), Holding -> Cancelled (by cancel_escrow_order) and
\* Delivered -> Completed (by confirm_delivery_and_release_funds); no step
\* changes a status along another edge, no order disappears, and an order
\* that is not Holding is not Holding after the step.
C4_Step ==
    /\ Len(orders') >= Len(orders)
    /\ \A o \in OrderAddrs :
         /\ orders'[o].status # orders[o].status
              => /\ lastCall'.obj = o
                 /\ lastCall'.err = 0
                 /\ \/ /\ orders[o].status = ESCROW_STATUS_HOLDING
                       /\ orders'[o].status = ESCROW_STATUS_DELIVERED
                       /\ IsCall(OP_DELIVER)
                    \/ /\ orders[o].status = ESCROW_STATUS_HOLDING
                       /\ orders'[o].status = ESCROW_STATUS_CANCELLED
                       /\ IsCall(OP_CANCEL)
                    \/ /\ orders[o].status = ESCROW_STATUS_DELIVERED
                       /\ orders'[o].status = ESCROW_STATUS_COMPLETED
                       /\ IsCall(OP_CONFIRM)
         /\ orders[o].status # ESCROW_STATUS_HOLDING
              => orders'[o].status # ESCROW_STATUS_HOLDING

\* C4: every step changes statuses only along the three edges.
C4_StatusEdges == [][C4_Step]_vars

\* All three edges were taken: a cancel has just succeeded on one order and
\* the other was delivered and completed.
C4_Witness ==
    /\ Succeeded(OP_CANCEL)
    /\ orders[lastCall.obj].status = ESCROW_STATUS_CANCELLED
    /\ \E o \in OrderAddrs :
         /\ orders[o].status = ESCROW_STATUS_COMPLETED
         /\ orders[o].completed_at # 0

\* ---------------------------------------------------------------------- C5
\* C5: terminal states are absorbing.  Once an order is Completed or
\* Cancelled no step changes the order, and every deliver, confirm or cancel
\* call on it aborts and leaves all orders and all balances as they were: a
\* second confirm pays nothing, a second cancel refunds nothing.
C5_Step ==
    \A o \in OrderAddrs :
        orders[o].status \in Terminal
          => /\ orders'[o] = orders[o]
             /\ \A op \in TransitionOps :
                  (IsCall(op) /\ lastCall'.obj = o)
                    => /\ lastCall'.err # 0
                       /\ orders' = orders
                       /\ balance' = balance

\* C5: no step changes a Completed or Cancelled order or succeeds on it.
C5_TerminalAbsorbing == [][C5_Step]_vars

\* A second confirm on a Completed order was refused and the seller holds
\* exactly one payment.
C5_Witness ==
    /\ lastCall.op = OP_CONFIRM
    /\ lastCall.err = ERR_ORDER_NOT_DELIVERED
    /\ orders[lastCall.obj].status = ESCROW_STATUS_COMPLETED
    /\ Len(orders) = 1
    /\ balance[orders[lastCall.obj].seller_wallet]
          = InitialBalance + orders[lastCall.obj].total_amount

\* ---------------------------------------------------------------------- C6
InvalidStateError(op) ==
    CASE op = OP_DELIVER -> ERR_ORDER_NOT_HOLDING
      [] op = OP_CONFIRM -> ERR_ORDER_NOT_DELIVERED
      [] op = OP_CANCEL -> ERR_CANNOT_CANCEL

AuthorizationError(op) ==
    CASE op = OP_DELIVER -> ERR_ONLY_SELLER_CAN_DELIVER
      [] op = OP_CONFIRM -> ERR_ONLY_BUYER_CAN_CONFIRM
      [] op = OP_CANCEL -> ERR_ONLY_BUYER_CAN_CONFIRM

\* An aborted deliver, confirm or cancel on a Completed or Cancelled order.
\* An aborted call leaves the order as it was, so the status seen is the
\* status the call met.
RefusedOnTerminal ==
    /\ lastCall.op \in TransitionOps
    /\ lastCall.err # 0
    /\ OrderExists(lastCall.obj)
    /\ orders[lastCall.obj].status \in Terminal

\* C6 as stated: every deliver, confirm or cancel call on a Completed or
\* Cancelled order aborts with the invalid-state error (ERR_ORDER_NOT_HOLDING,
\* ERR_ORDER_NOT_DELIVERED, ERR_CANNOT_CANCEL), whoever calls.
C6_AlwaysInvalidState ==
    RefusedOnTerminal => lastCall.err = InvalidStateError(lastCall.op)

\* C6 amended: on a Completed or Cancelled order, a deliver by the order's
\* seller, a confirm by the order's buyer and a cancel by the buyer or the
\* seller abort with the invalid-state error whatever the code; the same
\* calls by any other account abort with the authorization error
\* (ERR_ONLY_SELLER_CAN_DELIVER or ERR_ONLY_BUYER_CAN_CONFIRM).
C6_InvalidStateForParty ==
    /\ \A o \in OrderAddrs :
         orders[o].status \in Terminal
           => \A caller \in Accounts, code \in CodeInputs(o) :
                /\ DeliverErr(caller, o, code)
                     = IF caller = orders[o].seller_wallet
                       THEN ERR_ORDER_NOT_HOLDING
                       ELSE ERR_ONLY_SELLER_CAN_DELIVER
                /\ ConfirmErr(caller, o, code)
                     = IF caller = orders[o].buyer_wallet
                       THEN ERR_ORDER_NOT_DELIVERED
                       ELSE ERR_ONLY_BUYER_CAN_CONFIRM
                /\ CancelErr(caller, o)
                     = IF caller \in {orders[o].buyer_wallet,
                                      orders[o].seller_wallet}
                       THEN ERR_CANNOT_CANCEL
                       ELSE ERR_ONLY_BUYER_CAN_CONFIRM
    /\ RefusedOnTerminal
         => lastCall.err \in {InvalidStateError(lastCall.op),
                              AuthorizationError(lastCall.op)}

\* The seller's deliver on a Cancelled order was refused as not Holding.
C6_Witness ==
    /\ lastCall.op = OP_DELIVER
    /\ lastCall.err = ERR_ORDER_NOT_HOLDING
    /\ orders[lastCall.obj].status = ESCROW_STATUS_CANCELLED

\* ---------------------------------------------------------------------- C7
\* C7: each transition is restricted to its party.  In every state and for
\* every order, whatever its status and whatever the code, deliver_order
\* aborts when the caller is not the order's seller, confirm aborts when the
\* caller is not the order's buyer and cancel aborts when the caller is
\* neither; a call that succeeded was made by the party; and a call refused
\* for its caller leaves all orders and all balances unchanged.
C7_NonPartyRefused ==
    /\ \A o \in OrderAddrs, caller \in Accounts : \A code \in CodeInputs(o) :
         /\ caller # orders[o].seller_wallet
              => DeliverErr(caller, o, code) = ERR_ONLY_SELLER_CAN_DELIVER
         /\ caller # orders[o].buyer_wallet
              => ConfirmErr(caller, o, code) = ERR_ONLY_BUYER_CAN_CONFIRM
         /\ caller \notin {orders[o].buyer_wallet, orders[o].seller_wallet}
              => CancelErr(caller, o) = ERR_ONLY_BUYER_CAN_CONFIRM
    /\ Succeeded(OP_DELIVER)
         => lastCall.caller = orders[lastCall.obj].seller_wallet
    /\ Succeeded(OP_CONFIRM)
         => lastCall.caller = orders[lastCall.obj].buyer_wallet
    /\ Succeeded(OP_CANCEL)
         => lastCall.caller \in {orders[lastCall.obj].buyer_wallet,
                                 orders[lastCall.obj].seller_wallet}

C7_Step ==
    \A op \in TransitionOps :
        (IsCall(op) /\ lastCall'.err = AuthorizationError(op))
          => /\ orders' = orders
             /\ balance' = balance

\* C7: a call by another account than the party is refused in every state
\* and changes nothing.
C7_OnlyTheParty == []C7_NonPartyRefused /\ [][C7_Step]_vars

\* A deliver by an account that is not the seller was refused on a Holding
\* order, whose funds stay locked.
C7_Witness ==
    /\ lastCall.op = OP_DELIVER
    /\ lastCall.err = ERR_ONLY_SELLER_CAN_DELIVER
    /\ orders[lastCall.obj].status = ESCROW_STATUS_HOLDING
    /\ orders[lastCall.obj].locked_funds = orders[lastCall.obj].total_amount

\* ---------------------------------------------------------------------- C8
\* Strings tried as codes on order o: the stored codes, b"000000", the empty
\* string, and the stored codes cut short, extended or with a leading zero.
CodeGuesses(o) ==
    CodeInputs(o)
      \cup {<<>>,
            SubSeq(orders[o].delivery_code, 1, 5),
            Append(orders[o].delivery_code, 48),
            <<48>> \o orders[o].delivery_code,
            SubSeq(orders[o].receiving_code, 1, 3),
            Append(orders[o].receiving_code, 48),
            <<48>> \o orders[o].receiving_code}

\* C8: code gating without attempt counting.  On a Holding order the
\* seller's deliver_order aborts with ERR_INVALID_DELIVERY_CODE for every
\* string but the stored delivery_code and succeeds for the stored one; on a
\* Delivered order the buyer's confirm aborts with ERR_INVALID_RECEIVING_CODE
\* for every string but the stored receiving_code and succeeds for the stored
\* one.  This holds in every reachable state, so also after any number of
\* refused attempts.  A refused attempt leaves the chain state unchanged:
\* status Holding, delivered_at 0 and the funds locked after a refused
\* deliver, status Delivered and the funds locked after a refused confirm.
C8_CodeDecides ==
    /\ \A o \in OrderAddrs : \A code \in CodeGuesses(o) :
         /\ orders[o].status = ESCROW_STATUS_HOLDING
              => DeliverErr(orders[o].seller_wallet, o, code)
                   = IF code = orders[o].delivery_code
                     THEN 0 ELSE ERR_INVALID_DELIVERY_CODE
         /\ orders[o].status = ESCROW_STATUS_DELIVERED
              => ConfirmErr(orders[o].buyer_wallet, o, code)
                   = IF code = orders[o].receiving_code
                     THEN 0 ELSE ERR_INVALID_RECEIVING_CODE
    /\ (lastCall.op = OP_DELIVER /\ lastCall.err = ERR_INVALID_DELIVERY_CODE)
         => /\ orders[lastCall.obj].status = ESCROW_STATUS_HOLDING
            /\ orders[lastCall.obj].delivered_at = 0
            /\ orders[lastCall.obj].locked_funds
                  = orders[lastCall.obj].total_amount
    /\ (lastCall.op = OP_CONFIRM /\ lastCall.err = ERR_INVALID_RECEIVING_CODE)
         => /\ orders[lastCall.obj].status = ESCROW_STATUS_DELIVERED
            /\ orders[lastCall.obj].locked_funds
                  = orders[lastCall.obj].total_amount
    /\ Succeeded(OP_DELIVER)
         => lastCall.code = orders[lastCall.obj].delivery_code
    /\ Succeeded(OP_CONFIRM)
         => lastCall.code = orders[lastCall.obj].receiving_code

C8_Step ==
    \/ /\ IsCall(OP_DELIVER)
       /\ lastCall'.err = ERR_INVALID_DELIVERY_CODE
    \/ /\ IsCall(OP_CONFIRM)
       /\ lastCall'.err = ERR_INVALID_RECEIVING_CODE
    => UNCHANGED chain

\* C8: the stored code alone decides, in every state, and a refused attempt
\* changes nothing.
C8_CodeGating == []C8_CodeDecides /\ [][C8_Step]_vars

\* The seller's deliver with a wrong code was refused: the order is still
\* Holding with delivered_at 0, and the stored code would be accepted.
C8_Witness ==
    /\ lastCall.op = OP_DELIVER
    /\ lastCall.err = ERR_INVALID_DELIVERY_CODE
    /\ orders[lastCall.obj].status = ESCROW_STATUS_HOLDING
    /\ orders[lastCall.obj].delivered_at = 0
    /\ DeliverErr(orders[lastCall.obj].seller_wallet, lastCall.obj,
                  orders[lastCall.obj].delivery_code) = 0

\* ---------------------------------------------------------------------- C9
\* C9: no cancel after delivery.  On an order that is Delivered, Completed or
\* Cancelled every cancel_escrow_order by the buyer or by the seller aborts
\* with ERR_CANNOT_CANCEL and leaves all orders and balances unchanged; the
\* only step that changes a Delivered order makes it Completed and pays the
\* locked funds to the seller, the buyer's balance staying as it was.
C9_CancelRefused ==
    /\ \A o \in OrderAddrs :
         orders[o].status # ESCROW_STATUS_HOLDING
           => \A caller \in {orders[o].buyer_wallet, orders[o].seller_wallet} :
                CancelErr(caller, o) = ERR_CANNOT_CANCEL
    /\ Succeeded(OP_CANCEL)
         => /\ orders[lastCall.obj].status = ESCROW_STATUS_CANCELLED
            /\ orders[lastCall.obj].delivered_at = 0

C9_Step ==
    \A o \in OrderAddrs :
        /\ (/\ orders[o].status # ESCROW_STATUS_HOLDING
            /\ IsCall(OP_CANCEL)
            /\ lastCall'.obj = o)
             => /\ lastCall'.err # 0
                /\ orders' = orders
                /\ balance' = balance
        /\ (/\ orders[o].status = ESCROW_STATUS_DELIVERED
            /\ orders'[o] # orders[o])
             => /\ orders'[o].status = ESCROW_STATUS_COMPLETED
                /\ balance'[orders[o].buyer_wallet]
                      = balance[orders[o].buyer_wallet]
                /\ balance'[orders[o].seller_wallet]
                      = balance[orders[o].seller_wallet]
                          + orders[o].locked_funds

\* C9: cancel is refused on every order that is no longer Holding, and the
\* funds of a Delivered order go to the seller only.
C9_NoCancelAfterDelivery == []C9_CancelRefused /\ [][C9_Step]_vars

\* A cancel on a Delivered order was refused and its funds are still locked.
C9_Witness ==
    /\ lastCall.op = OP_CANCEL
    /\ lastCall.err = ERR_CANNOT_CANCEL
    /\ orders[lastCall.obj].status = ESCROW_STATUS_DELIVERED
    /\ orders[lastCall.obj].locked_funds = orders[lastCall.obj].total_amount

\* --------------------------------------------------------------------- C10
\* What the orders of account a have taken from and paid into its balance:
\* minus total_amount for each order it bought that is not Cancelled, plus
\* total_amount for each Completed order it sold.
RECURSIVE NetOfOrders(_, _)
NetOfOrders(a, n) ==
    IF n = 0 THEN 0
    ELSE NetOfOrders(a, n - 1)
         - (IF orders[n].buyer_wallet = a
               /\ orders[n].status # ESCROW_STATUS_CANCELLED
            THEN orders[n].total_amount ELSE 0)
         + (IF orders[n].seller_wallet = a
               /\ orders[n].status = ESCROW_STATUS_COMPLETED
            THEN orders[n].total_amount ELSE 0)

\* C10: a successful cancel_escrow_order is made on a Holding order by its
\* buyer or its seller; it deposits the order's entire locked amount, its
\* total_amount, to the order's buyer and changes no other balance (nothing
\* goes to the seller when the seller calls), sets the status to Cancelled
\* and the locked amount to 0.  The refund equals the withdrawal of the
\* matching initiate: a Cancelled order leaves no trace in any balance.
C10_CancelledLeavesNoTrace ==
    \A a \in Accounts : balance[a] = InitialBalance + NetOfOrders(a, Len(orders))

C10_Step ==
    (IsCall(OP_CANCEL) /\ lastCall'.err = 0)
      => LET o == lastCall'.obj
         IN  /\ o \in OrderAddrs
             /\ orders[o].status = ESCROW_STATUS_HOLDING
             /\ lastCall'.caller \in {orders[o].buyer_wallet,
                                      orders[o].seller_wallet}
             /\ orders[o].locked_funds = orders[o].total_amount
             /\ orders' = [orders EXCEPT ![o].status = ESCROW_STATUS_CANCELLED,
                                         ![o].locked_funds = 0]
             /\ balance' = [balance EXCEPT ![orders[o].buyer_wallet] =
                                              @ + orders[o].total_amount]

\* C10: a successful cancel refunds the buyer alone and whole, and a
\* Cancelled order leaves no trace in any balance.
C10_CancelRefundsBuyer ==
    []C10_CancelledLeavesNoTrace /\ [][C10_Step]_vars

\* The seller has just cancelled the only order: the buyer has its whole
\* balance back and the seller got nothing.
C10_Witness ==
    /\ Succeeded(OP_CANCEL)
    /\ Len(orders) = 1
    /\ lastCall.caller = orders[lastCall.obj].seller_wallet
    /\ lastCall.caller # orders[lastCall.obj].buyer_wallet
    /\ orders[lastCall.obj].status = ESCROW_STATUS_CANCELLED
    /\ orders[lastCall.obj].locked_funds = 0
    /\ balance[orders[lastCall.obj].buyer_wallet] = InitialBalance
    /\ balance[orders[lastCall.obj].seller_wallet] = InitialBalance

\* --------------------------------------------------------------------- C11
OP_INITIATE == "initiate_trade_and_lock_funds"

\* C11: a successful initiate_trade_and_lock_funds by buyer b with quantity q
\* on a product of unit price p takes exactly p*q from b's balance and changes
\* no other balance; it creates exactly one order, leaving the others as they
\* were, with total_amount = p*q, locked_funds = p*q, unit_price = p,
\* quantity = q, buyer b, status Holding, a delivery code of length 6, a
\* receiving code of length 4 and delivered_at = completed_at = 0.  No other
\* step creates an order.
C11_Step ==
    /\ (IsCall(OP_INITIATE) /\ lastCall'.err = 0)
         => LET b == lastCall'.caller
                p == lastCall'.obj
                q == lastCall'.qty
                n == Len(orders) + 1
            IN  /\ q > 0
                /\ ProductExists(p)
                /\ Len(orders') = n
                /\ \A o \in OrderAddrs : orders'[o] = orders[o]
                /\ orders'[n].product_obj_addr = p
                /\ orders'[n].buyer_wallet = b
                /\ orders'[n].quantity = q
                /\ orders'[n].unit_price = products[p].price
                /\ orders'[n].total_amount = products[p].price * q
                /\ orders'[n].locked_funds = products[p].price * q
                /\ orders'[n].status = ESCROW_STATUS_HOLDING
                /\ Len(orders'[n].delivery_code) = 6
                /\ Len(orders'[n].receiving_code) = 4
                /\ orders'[n].delivered_at = 0
                /\ orders'[n].completed_at = 0
                /\ balance'[b] = balance[b] - products[p].price * q
                /\ \A a \in Accounts \ {b} : balance'[a] = balance[a]
    /\ Len(orders') # Len(orders)
         => IsCall(OP_INITIATE) /\ lastCall'.err = 0

ProfileMissing(b) == ~profiles[b].exists

NotABuyer(b) == profiles[b].role # ROLE_BUYER

Unavailable(p) ==
    \/ p \notin 1..Len(products)
    \/ ~products[p].is_available
    \/ products[p].is_deleted
    \/ products[p].quantity_left = 0

StockShort(p, q) == products[p].quantity_left < q

FundsShort(b, p, q) == balance[b] < products[p].price * q

\* Quantities a buyer asks for: none, what the catalog can hold, and more.
QuantityInputs == 0..(MaxQuantity + 1)

\* C12: initiate_trade_and_lock_funds aborts with the error of the first
\* violated precondition in the order: profile missing (1), caller not a
\* Buyer (2), quantity = 0 (5), product unavailable, deleted or out of stock
\* (3), quantity_left < quantity (4), balance < unit_price * quantity (14),
\* and succeeds when none is violated; when both the stock and the funds are
\* short the error is ERR_INSUFFICIENT_PRODUCT_QUANTITY.  An aborted initiate
\* reports one of these six codes.
C12_FirstViolatedDecides ==
    /\ \A b \in Accounts, p \in 1..MaxProducts, q \in QuantityInputs :
         /\ InitiateErr(b, p, q) =
              IF ProfileMissing(b) THEN 1
              ELSE IF NotABuyer(b) THEN 2
              ELSE IF q = 0 THEN 5
              ELSE IF Unavailable(p) THEN 3
              ELSE IF StockShort(p, q) THEN 4
              ELSE IF FundsShort(b, p, q) THEN 14
              ELSE 0
         /\ (/\ ~ProfileMissing(b) /\ ~NotABuyer(b) /\ q > 0 /\ ~Unavailable(p)
             /\ StockShort(p, q) /\ FundsShort(b, p, q))
              => InitiateErr(b, p, q) = ERR_INSUFFICIENT_PRODUCT_QUANTITY
    /\ lastCall.op = OP_INITIATE
         => lastCall.err \in {0, 1, 2, 5, 3, 4, 14}

\* An initiate was refused for the stock on a product whose stock the seller
\* had reduced to 1, by a buyer who could not have paid the two units either.
C12_Witness ==
    /\ lastCall.op = OP_INITIATE
    /\ lastCall.err = ERR_INSUFFICIENT_PRODUCT_QUANTITY
    /\ ~Unavailable(lastCall.obj)
    /\ products[lastCall.obj].total_quantity = 2
    /\ StockShort(lastCall.obj, 2)
    /\ \E b \in Accounts :
         /\ ~ProfileMissing(b)
         /\ ~NotABuyer(b)
         /\ FundsShort(b, lastCall.obj, 2)
         /\ InitiateErr(b, lastCall.obj, 2) = ERR_INSUFFICIENT_PRODUCT_QUANTITY

\* --------------------------------------------------------------------- C13
EscrowOps == {OP_INITIATE, OP_DELIVER, OP_CONFIRM, OP_CANCEL}

\* C13: all-or-nothing failure.  Every call of initiate, deliver, confirm or
\* cancel that aborts leaves the whole state unchanged: all balances, every
\* order, the id counter, the buyer and seller registries, the products and
\* the profiles; a failed initiate withdraws nothing, consumes no id and
\* appends to no registry.
C13_Step ==
    \A op \in EscrowOps :
        (IsCall(op) /\ lastCall'.err # 0)
          => /\ balance' = balance
             /\ orders' = orders
             /\ counter' = counter
             /\ buyerRegistry' = buyerRegistry
             /\ sellerRegistry' = sellerRegistry
             /\ products' = products
             /\ profiles' = profiles

Fixed(order) ==
    <<order.escrow_order_id, order.product_obj_addr, order.quantity,
      order.buyer_wallet, order.seller_wallet, order.unit_price,
      order.total_amount, order.delivery_code, order.receiving_code>>

\* C14: the seller of an order is the seller_wallet of the catalog product at
\* the moment of the initiate, whoever the caller is (the caller becomes the
\* buyer and supplies the product and the quantity only); and no later step,
\* be it a deliver, confirm, cancel, another initiate or a catalog operation,
\* changes an order's id, product, quantity, buyer, seller, unit_price,
\* total_amount, delivery_code or receiving_code.
C14_Step ==
    /\ \A o \in OrderAddrs : Fixed(orders'[o]) = Fixed(orders[o])
    /\ \A o \in 1..Len(orders') :
         o > Len(orders)
           => /\ orders'[o].seller_wallet
                   = products[orders'[o].product_obj_addr].seller_wallet
              /\ orders'[o].buyer_wallet = lastCall'.caller
              /\ orders'[o].product_obj_addr = lastCall'.obj
              /\ orders'[o].quantity = lastCall'.qty

\* C14: every step resolves a new order's seller from the catalog and keeps
\* the fixed fields of every existing order.
C14_FixedAtCreation == [][C14_Step]_vars

\* An order went through deliver and confirm, a later order was initiated
\* and cancelled, and the seller has repriced and deleted the product since:
\* the first order still names the product's seller and its own price.
C14_Witness ==
    /\ Len(orders) = 2
    /\ orders[1].status = ESCROW_STATUS_COMPLETED
    /\ orders[2].status = ESCROW_STATUS_CANCELLED
    /\ products[orders[1].product_obj_addr].is_deleted
    /\ products[orders[1].product_obj_addr].price # orders[1].unit_price
    /\ orders[1].seller_wallet
          = products[orders[1].product_obj_addr].seller_wallet
    /\ orders[1].seller_wallet # orders[1].buyer_wallet
    /\ orders[1].delivery_code = generate_6_digit_code(1, orders[1].buyer_wallet)

\* --------------------------------------------------------------------- C15
OP_UPDATE_PRODUCT == "update_product"

\* The amount of order o fixed at initiation.
AmountAtInitiation(o) == orders[o].unit_price * orders[o].quantity

\* C15: price snapshot.  A successful update_product changes the product's
\* price and leaves every order (its unit_price, total_amount and locked
\* funds) and every balance as they were; an initiate prices the order at the
\* product's price of that moment; and the amount a later confirm releases
\* to the seller, or a later cancel refunds to the buyer, is the order's
\* unit_price * quantity, whatever the product's price is by then.
C15_Step ==
    /\ (IsCall(OP_UPDATE_PRODUCT) /\ lastCall'.err = 0)
         => /\ products'[lastCall'.obj].price = lastCall'.qty
            /\ orders' = orders
            /\ balance' = balance
    /\ \A o \in 1..Len(orders') :
         o > Len(orders)
           => /\ orders'[o].unit_price
                   = products[orders'[o].product_obj_addr].price
              /\ orders'[o].total_amount
                   = orders'[o].unit_price * orders'[o].quantity
    /\ \A o \in OrderAddrs :
         /\ orders'[o].unit_price = orders[o].unit_price
         /\ orders'[o].total_amount = AmountAtInitiation(o)
         /\ orders'[o].locked_funds \in {0, AmountAtInitiation(o)}
         /\ (IsCall(OP_CONFIRM) /\ lastCall'.err = 0 /\ lastCall'.obj = o)
              => balance'[orders[o].seller_wallet]
                   = balance[orders[o].seller_wallet] + AmountAtInitiation(o)
         /\ (IsCall(OP_CANCEL) /\ lastCall'.err = 0 /\ lastCall'.obj = o)
              => balance'[orders[o].buyer_wallet]
                   = balance[orders[o].buyer_wallet] + AmountAtInitiation(o)

\* C15: no step lets a price change reach an order or the amount it pays.
C15_PriceSnapshot == [][C15_Step]_vars

\* Two units were bought at price 1, the seller then raised the price to 2,
\* and the confirm has just paid the seller 2, not 4.
C15_Witness ==
    /\ Succeeded(OP_CONFIRM)
    /\ orders[lastCall.obj].unit_price = 1
    /\ orders[lastCall.obj].quantity = 2
    /\ products[orders[lastCall.obj].product_obj_addr].price = 2
    /\ orders[lastCall.obj].total_amount = 2
    /\ Len(orders) = 1
    /\ balance[orders[lastCall.obj].seller_wallet] = InitialBalance + 2

\* --------------------------------------------------------------------- C16
\* C16: order ids are unique and increase in creation order.  In every state
\* the counter equals the number of orders ever created (cancelled ones
\* included), the k-th created order has id k, and no two orders share an id.
C16_IdsInCreationOrder ==
    /\ counter = Len(orders)
    /\ \A k \in OrderAddrs : orders[k].escrow_order_id = k
    /\ \A o1, o2 \in OrderAddrs :
         orders[o1].escrow_order_id = orders[o2].escrow_order_id => o1 = o2
    /\ \A o1, o2 \in OrderAddrs :
         o1 < o2 => orders[o1].escrow_order_id < orders[o2].escrow_order_id

\* The counter increases by exactly 1 on a successful initiate, which gives
\* the new order the new value, and no other step changes it.
C16_Step ==
    IF IsCall(OP_INITIATE) /\ lastCall'.err = 0
    THEN /\ counter' = counter + 1
         /\ Len(orders') = Len(orders) + 1
         /\ orders'[Len(orders')].escrow_order_id = counter'
    ELSE counter' = counter

\* C16: the counter starts at 0, every step obeys C16_Step and every state
\* C16_IdsInCreationOrder.
C16_UniqueIncreasingIds ==
    /\ counter = 0
    /\ []C16_IdsInCreationOrder
    /\ [][C16_Step]_vars

\* Two orders were created, the first was cancelled and an initiate was
\* refused since: the ids are 1 and 2 and the counter is 2.
C16_Witness ==
    /\ Len(orders) = 2
    /\ orders[1].status = ESCROW_STATUS_CANCELLED
    /\ orders[1].escrow_order_id = 1
    /\ orders[2].escrow_order_id = 2
    /\ counter = 2
    /\ lastCall.op = OP_INITIATE
    /\ lastCall.err # 0

\* --------------------------------------------------------------------- C17
\* The addresses of the first n orders that satisfy Test, in creation order.
RECURSIVE OrdersWhere(_, _)
OrdersWhere(Test(_), n) ==
    IF n = 0 THEN <<>>
    ELSE IF Test(orders[n]) THEN Append(OrdersWhere(Test, n - 1), n)
         ELSE OrdersWhere(Test, n - 1)

BoughtBy(a) == LET Test(order) == order.buyer_wallet = a
               IN  OrdersWhere(Test, Len(orders))

SoldBy(a) == LET Test(order) == order.seller_wallet = a
             IN  OrdersWhere(Test, Len(orders))

NoDuplicates(seq) == \A i, j \in 1..Len(seq) : seq[i] = seq[j] => i = j

IsPrefix(s, t) == Len(s) <= Len(t) /\ SubSeq(t, 1, Len(s)) = s

\* C17: the indexes are exact.  In every state get_buyer_escrow_orders(a) is
\* the list, in creation order and without duplicates, of exactly the orders
\* whose buyer is a, get_seller_escrow_orders(a) the same for the orders whose
\* seller is a, and get_buyer_order_count(a) the length of a's buyer list.
C17_IndexesExact ==
    \A a \in Accounts :
        /\ get_buyer_escrow_orders(a) = BoughtBy(a)
        /\ get_seller_escrow_orders(a) = SoldBy(a)
        /\ NoDuplicates(get_buyer_escrow_orders(a))
        /\ NoDuplicates(get_seller_escrow_orders(a))
        /\ get_buyer_order_count(a) = Len(get_buyer_escrow_orders(a))

\* The indexes are append-only: a step only extends a list at its end, and a
\* deliver, confirm or cancel, successful or not, leaves both registries as
\* they were.
C17_Step ==
    /\ \A a \in Accounts :
         /\ IsPrefix(get_buyer_escrow_orders(a), get_buyer_escrow_orders(a)')
         /\ IsPrefix(get_seller_escrow_orders(a), get_seller_escrow_orders(a)')
         /\ get_buyer_order_count(a)' >= get_buyer_order_count(a)
    /\ (\E op \in TransitionOps : IsCall(op))
         => /\ buyerRegistry' = buyerRegistry
            /\ sellerRegistry' = sellerRegistry

\* C17: the indexes are exact in every state and append-only in every step.
C17_IndexesExactAppendOnly == []C17_IndexesExact /\ [][C17_Step]_vars

\* Two buyers bought from one seller and the first order has just been
\* cancelled: each buyer lists its own order, the seller lists both in
\* creation order, the cancelled one included.
C17_Witness ==
    /\ Succeeded(OP_CANCEL)
    /\ lastCall.obj = 1
    /\ orders[1].status = ESCROW_STATUS_CANCELLED
    /\ Len(orders) = 2
    /\ orders[1].buyer_wallet # orders[2].buyer_wallet
    /\ get_buyer_escrow_orders(orders[1].buyer_wallet) = <<1>>
    /\ get_buyer_escrow_orders(orders[2].buyer_wallet) = <<2>>
    /\ get_buyer_order_count(orders[1].buyer_wallet) = 1
    /\ get_seller_escrow_orders(orders[1].seller_wallet) = <<1, 2>>

\* --------------------------------------------------------------------- C18
\* The two calls that race for a Holding order: the seller's deliver_order
\* with the stored code, and a cancel_escrow_order by the buyer or the seller.
Cancellers(o) == {orders[o].buyer_wallet, orders[o].seller_wallet}

DeliverWouldSucceed(o) ==
    DeliverErr(orders[o].seller_wallet, o, orders[o].delivery_code) = 0

CancelWouldSucceed(o) == \E c \in Cancellers(o) : CancelErr(c, o) = 0

\* On a Holding order either call would succeed if it came first; no order is
\* Delivered with its funds gone, Cancelled with funds still locked, or
\* Cancelled with a delivery recorded.
C18_OneOutcome ==
    \A o \in OrderAddrs :
        /\ orders[o].status = ESCROW_STATUS_HOLDING
             => /\ DeliverWouldSucceed(o)
                /\ \A c \in Cancellers(o) : CancelErr(c, o) = 0
        /\ orders[o].status = ESCROW_STATUS_DELIVERED
             => orders[o].locked_funds = orders[o].total_amount
        /\ orders[o].status = ESCROW_STATUS_CANCELLED
             => orders[o].locked_funds = 0 /\ orders[o].delivered_at = 0

\* The chain runs the two transactions one after the other, in either order.
\* Whichever comes first and succeeds shuts the other out: after a successful
\* deliver every cancel of the order aborts, after a successful cancel the
\* deliver aborts, and a refused second call leaves orders and balances as
\* the first left them.
C18_Step ==
    \A o \in OrderAddrs :
        /\ (IsCall(OP_DELIVER) /\ lastCall'.err = 0 /\ lastCall'.obj = o)
             => /\ orders[o].status = ESCROW_STATUS_HOLDING
                /\ ~CancelWouldSucceed(o)'
                /\ \A c \in Cancellers(o) :
                     CancelErr(c, o)' = ERR_CANNOT_CANCEL
        /\ (IsCall(OP_CANCEL) /\ lastCall'.err = 0 /\ lastCall'.obj = o)
             => /\ orders[o].status = ESCROW_STATUS_HOLDING
                /\ ~DeliverWouldSucceed(o)'
                /\ DeliverErr(orders[o].seller_wallet, o,
                              orders[o].delivery_code)' = ERR_ORDER_NOT_HOLDING
        /\ (/\ orders[o].status # ESCROW_STATUS_HOLDING
            /\ (IsCall(OP_DELIVER) \/ IsCall(OP_CANCEL))
            /\ lastCall'.obj = o)
             => /\ lastCall'.err # 0
                /\ orders' = orders
                /\ balance' = balance

\* C18: of a deliver and a cancel racing for the same Holding order exactly
\* one succeeds, in either order of execution.
C18_DeliverCancelRace == []C18_OneOutcome /\ [][C18_Step]_vars

\* The cancel came first: the seller's deliver that followed was refused, the
\* order is Cancelled without a delivery and the buyer has its funds back.
C18_Witness ==
    /\ lastCall.op = OP_DELIVER
    /\ lastCall.err = ERR_ORDER_NOT_HOLDING
    /\ Len(orders) = 1
    /\ orders[1].status = ESCROW_STATUS_CANCELLED
    /\ orders[1].delivered_at = 0
    /\ orders[1].locked_funds = 0
    /\ balance[orders[1].buyer_wallet] = InitialBalance
    /\ balance[orders[1].seller_wallet] = InitialBalance

\* --------------------------------------------------------------------- C19
IsDecimal(s) == \A i \in 1..Len(s) : s[i] \in 48..57

RECURSIVE ParseDecimal(_)
ParseDecimal(s) ==
    IF s = <<>> THEN 0
    ELSE ParseDecimal(SubSeq(s, 1, Len(s) - 1)) * 10 + (s[Len(s)] - 48)

\* C19: for every order id and every address, the delivery code generated is
\* the decimal string of an integer in 100000..999999, exactly 6 digits with
\* no leading zero, and the receiving code the decimal string of an integer
\* in 1000..9999, exactly 4 digits; the code is a function of the id and the
\* address alone: whenever it is generated it is the same.
C19_CodesInRange ==
    /\ generated.fn = "generate_6_digit_code"
         => /\ Len(generated.code) = 6
            /\ IsDecimal(generated.code)
            /\ generated.code[1] # 48
            /\ ParseDecimal(generated.code) \in 100000..999999
            /\ generated.code = six_digit_code(generated.escrow_order_id,
                                               generated.first_byte)
    /\ generated.fn = "generate_4_digit_code"
         => /\ Len(generated.code) = 4
            /\ IsDecimal(generated.code)
            /\ generated.code[1] # 48
            /\ ParseDecimal(generated.code) \in 1000..9999
            /\ generated.code = four_digit_code(generated.escrow_order_id,
                                                generated.first_byte)

\* The delivery code at the top of its range, b"999999", generated for an id
\* just below the point where the seed passes the modulus.
C19_Witness ==
    /\ generated.fn = "generate_6_digit_code"
    /\ generated.code = <<57, 57, 57, 57, 57, 57>>
    /\ generated.escrow_order_id + generated.first_byte = 899999

\* --------------------------------------------------------------------- C20
\* C20: the status Refunded is unreachable.  In every reachable state every
\* stored order has status Holding, Delivered, Completed or Cancelled; no
\* order has status Refunded (6) or the unused Initiated (1), and an order
\* whose funds went back to the buyer is Cancelled.
C20_RefundedUnreachable ==
    \A o \in OrderAddrs :
        /\ orders[o].status \in {ESCROW_STATUS_HOLDING, ESCROW_STATUS_DELIVERED,
                                 ESCROW_STATUS_COMPLETED, ESCROW_STATUS_CANCELLED}
        /\ orders[o].status # ESCROW_STATUS_REFUNDED
        /\ orders[o].status # ESCROW_STATUS_INITIATED

\* The buyer has just been refunded for the second order, after the first
\* was completed: the refunded order is Cancelled, not Refunded.
C20_Witness ==
    /\ Succeeded(OP_CANCEL)
    /\ lastCall.obj = 2
    /\ lastCall.caller = orders[2].buyer_wallet
    /\ orders[2].status = ESCROW_STATUS_CANCELLED
    /\ orders[2].locked_funds = 0
    /\ orders[1].status = ESCROW_STATUS_COMPLETED
    /\ orders[2].total_amount > 0

\* --------------------------------------------------------------------- C21
\* C21: delivered_at and completed_at use 0 for "has not happened".  In every
\* reachable state delivered_at is nonzero exactly when the status is
\* Delivered or Completed, and completed_at is nonzero exactly when the
\* status is Completed.  A refused deliver_order leaves delivered_at at 0,
\* and cancel_escrow_order never sets either timestamp.
\* The block timestamp of a transaction is positive (Init: now = 1).
C21_TimestampsFollowStatus ==
    \A o \in OrderAddrs :
        /\ orders[o].delivered_at # 0
             <=> orders[o].status \in {ESCROW_STATUS_DELIVERED,
                                       ESCROW_STATUS_COMPLETED}
        /\ orders[o].completed_at # 0
             <=> orders[o].status = ESCROW_STATUS_COMPLETED

C21_Step ==
    /\ IsCall(OP_DELIVER) /\ lastCall'.err # 0
         => \A o \in OrderAddrs :
              orders'[o].delivered_at = orders[o].delivered_at
    /\ IsCall(OP_CANCEL)
         => /\ \A o \in OrderAddrs :
                 /\ orders'[o].delivered_at = orders[o].delivered_at
                 /\ orders'[o].completed_at = orders[o].completed_at
            /\ lastCall'.err = 0
                 => /\ orders'[lastCall'.obj].delivered_at = 0
                    /\ orders'[lastCall'.obj].completed_at = 0

C22_Step ==
    \A op \in EscrowOps : IsCall(op) => products' = products

C22_NoStockReservation == [][C22_Step]_vars

\* Two trades on the one product were accepted, the second just now; together
\* they bought more units than the product ever had, and the product still
\* shows its whole stock.
C22_Witness ==
    /\ Succeeded(OP_INITIATE)
    /\ Len(orders) = 2
    /\ orders[1].product_obj_addr = 1
    /\ orders[2].product_obj_addr = 1
    /\ orders[1].quantity + orders[2].quantity > products[1].total_quantity
    /\ products[1].quantity_left = products[1].total_quantity

\* --------------------------------------------------------------------- C23
\* C23: the capability check of initiate_trade_and_lock_funds covers the
\* active flag: a trade is accepted only if the buyer has a profile, the
\* profile has the Buyer role and the profile is active, so a buyer who
\* deactivated the profile cannot initiate a trade until it is reactivated.
C23_ActiveBuyerOnly ==
    Succeeded(OP_INITIATE)
        => /\ profile_exists(lastCall.caller)
           /\ is_buyer(lastCall.caller)
           /\ is_profile_active(lastCall.caller)

\* What the escrow does check: the profile and its role.
C23_RegisteredBuyerOnly ==
    Succeeded(OP_INITIATE)
        => /\ profile_exists(lastCall.caller)
           /\ is_buyer(lastCall.caller)

\* A buyer whose profile is deactivated has just had a trade accepted and the
\* funds locked.
C23_Witness ==
    /\ Succeeded(OP_INITIATE)
    /\ profile_exists(lastCall.caller)
    /\ is_buyer(lastCall.caller)
    /\ ~is_profile_active(lastCall.caller)
    /\ orders[Len(orders)].buyer_wallet = lastCall.caller
    /\ orders[Len(orders)].locked_funds > 0

\* --------------------------------------------------------------------- C24
\* C24: error precedence in deliver_order, confirm_delivery_and_release_funds
\* and cancel_escrow_order.  The caller is checked before the status, and the
\* status before the code: a caller who is not the required party gets the
\* authorization error whatever the status and the code, the required party
\* on an order in the wrong status gets the invalid-state error whatever the
\* code, and only the required party on an order in the right status gets the
\* code error, for a wrong code.
C24_ErrorPrecedence ==
    \A o \in OrderAddrs : \A caller \in Accounts :
        /\ \A code \in CodeGuesses(o) :
             /\ DeliverErr(caller, o, code)
                  = IF caller # orders[o].seller_wallet
                       THEN ERR_ONLY_SELLER_CAN_DELIVER
                    ELSE IF orders[o].status # ESCROW_STATUS_HOLDING
                       THEN ERR_ORDER_NOT_HOLDING
                    ELSE IF code # orders[o].delivery_code
                       THEN ERR_INVALID_DELIVERY_CODE
                    ELSE 0
             /\ ConfirmErr(caller, o, code)
                  = IF caller # orders[o].buyer_wallet
                       THEN ERR_ONLY_BUYER_CAN_CONFIRM
                    ELSE IF orders[o].status # ESCROW_STATUS_DELIVERED
                       THEN ERR_ORDER_NOT_DELIVERED
                    ELSE IF code # orders[o].receiving_code
                       THEN ERR_INVALID_RECEIVING_CODE
                    ELSE 0
        /\ CancelErr(caller, o)
             = IF caller \notin {orders[o].buyer_wallet, orders[o].seller_wallet}
                  THEN ERR_ONLY_BUYER_CAN_CONFIRM
               ELSE IF orders[o].status # ESCROW_STATUS_HOLDING
                  THEN ERR_CANNOT_CANCEL
               ELSE 0

\* A confirm on a Holding order was refused for its caller, not for the
\* status: the order's seller called it, and every code the seller could
\* have passed, the stored receiving code included, gets the same answer.
C24_Witness ==
    /\ lastCall.op = OP_CONFIRM
    /\ lastCall.err = ERR_ONLY_BUYER_CAN_CONFIRM
    /\ OrderExists(lastCall.obj)
    /\ orders[lastCall.obj].status = ESCROW_STATUS_HOLDING
    /\ \A code \in CodeGuesses(lastCall.obj) :
         ConfirmErr(orders[lastCall.obj].seller_wallet, lastCall.obj, code)
           = ERR_ONLY_BUYER_CAN_CONFIRM
    /\ ConfirmErr(orders[lastCall.obj].buyer_wallet, lastCall.obj, WrongCode)
         = ERR_ORDER_NOT_DELIVERED

\* ------------------------------------------------- module order vocabulary
PlacedAddrs == 1..Len(placedOrders)

OP_CANCEL_ORDER == "cancel_order"

OP_UPDATE_ORDER_STATUS == "update_order_status"

\* --------------------------------------------------------------------- C25
\* C25: the cancellation rule of a plain order.  cancel_order succeeds for
\* the buyer only while the order is Pending or Confirmed, and for the seller
\* only while it is Pending, Confirmed or Processing; in every other status
\* (Shipped, Delivered, Cancelled, Refunded) and for every other caller it
\* is refused.
C25_CancelRule ==
    \A o \in PlacedAddrs : \A caller \in Accounts :
        CancelOrderErr(caller, o) = 0
          <=> \/ /\ caller = placedOrders[o].buyer_wallet
                 /\ placedOrders[o].status \in {ORDER_STATUS_PENDING,
                                                ORDER_STATUS_CONFIRMED}
              \/ /\ caller = placedOrders[o].seller_wallet
                 /\ placedOrders[o].status \in {ORDER_STATUS_PENDING,
                                                ORDER_STATUS_CONFIRMED,
                                                ORDER_STATUS_PROCESSING}

\* What cancel_order does: the seller is refused on a Shipped, a Delivered
\* and a Cancelled order only, so the seller's cancel_order also goes through
\* on a Refunded order.
C25_CancelRuleOfTheCode ==
    \A o \in PlacedAddrs : \A caller \in Accounts :
        CancelOrderErr(caller, o) = 0
          <=> \/ /\ caller = placedOrders[o].buyer_wallet
                 /\ placedOrders[o].status \in {ORDER_STATUS_PENDING,
                                                ORDER_STATUS_CONFIRMED}
              \/ /\ caller = placedOrders[o].seller_wallet
                 /\ placedOrders[o].status \in {ORDER_STATUS_PENDING,
                                                ORDER_STATUS_CONFIRMED,
                                                ORDER_STATUS_PROCESSING,
                                                ORDER_STATUS_REFUNDED}

\* The seller's cancel_order has just gone through on an order that had been
\* delivered: it was Refunded, and is Cancelled now.
C25_Witness ==
    /\ Succeeded(OP_CANCEL_ORDER)
    /\ PlacedOrderExists(lastCall.obj)
    /\ lastCall.caller = placedOrders[lastCall.obj].seller_wallet
    /\ placedOrders[lastCall.obj].status = ORDER_STATUS_CANCELLED
    /\ placedOrders[lastCall.obj].delivered_at # 0

\* --------------------------------------------------------------------- C26
\* The edges of the workflow: the chain Pending, Confirmed, Processing,
\* Shipped, Delivered, Refunded, and Cancelled from the first three.
WorkflowEdges ==
    {<<ORDER_STATUS_PENDING, ORDER_STATUS_CONFIRMED>>,
     <<ORDER_STATUS_CONFIRMED, ORDER_STATUS_PROCESSING>>,
     <<ORDER_STATUS_PROCESSING, ORDER_STATUS_SHIPPED>>,
     <<ORDER_STATUS_SHIPPED, ORDER_STATUS_DELIVERED>>,
     <<ORDER_STATUS_DELIVERED, ORDER_STATUS_REFUNDED>>,
     <<ORDER_STATUS_PENDING, ORDER_STATUS_CANCELLED>>,
     <<ORDER_STATUS_CONFIRMED, ORDER_STATUS_CANCELLED>>,
     <<ORDER_STATUS_PROCESSING, ORDER_STATUS_CANCELLED>>}

\* C26: the status workflow of a plain order.  update_order_status succeeds
\* only for the order's seller and only along Pending, Confirmed, Processing,
\* Shipped, Delivered, Refunded, one step at a time, or to Cancelled from
\* Pending, Confirmed or Processing; it never succeeds on a Cancelled or a
\* Refunded order, and a call by the buyer is refused and leaves the order
\* unchanged.
C26_WorkflowRule ==
    \A o \in PlacedAddrs : \A caller \in Accounts, new_status \in StatusInputs :
        /\ UpdateOrderStatusErr(caller, o, new_status) = 0
             <=> /\ caller = placedOrders[o].seller_wallet
                 /\ <<placedOrders[o].status, new_status>> \in WorkflowEdges
        /\ placedOrders[o].status \in {ORDER_STATUS_CANCELLED,
                                       ORDER_STATUS_REFUNDED}
             => UpdateOrderStatusErr(caller, o, new_status) # 0
        /\ caller = placedOrders[o].buyer_wallet
             => UpdateOrderStatusErr(caller, o, new_status)
                  = ERR_ONLY_SELLER_CAN_UPDATE

C26_Step ==
    IsCall(OP_UPDATE_ORDER_STATUS)
      => IF lastCall'.err = 0
         THEN LET o == lastCall'.obj
              IN  /\ lastCall'.caller = placedOrders[o].seller_wallet
                  /\ <<placedOrders[o].status, placedOrders'[o].status>>
                       \in WorkflowEdges
                  /\ placedOrders'[o].status = lastCall'.qty
                  /\ \A other \in PlacedAddrs \ {o} :
                       placedOrders'[other] = placedOrders[other]
                  /\ Len(placedOrders') = Len(placedOrders)
         ELSE placedOrders' = placedOrders

C26_StatusWorkflow ==
    /\ []C26_WorkflowRule
    /\ [][C26_Step]_vars

\* The seller has just moved an order from Delivered to Refunded, the end of
\* the chain, while the other order was cancelled out of Processing or
\* before; nothing the seller or the buyer passes moves the Refunded order on.
C26_Witness ==
    /\ Succeeded(OP_UPDATE_ORDER_STATUS)
    /\ lastCall.qty = ORDER_STATUS_REFUNDED
    /\ Len(placedOrders) = 2
    /\ placedOrders[lastCall.obj].status = ORDER_STATUS_REFUNDED
    /\ placedOrders[lastCall.obj].delivered_at # 0
    /\ \E other \in PlacedAddrs :
         /\ placedOrders[other].status = ORDER_STATUS_CANCELLED
         /\ placedOrders[other].delivered_at = 0
    /\ \A caller \in Accounts, new_status \in StatusInputs :
         UpdateOrderStatusErr(caller, lastCall.obj, new_status) # 0

\* --------------------------------------------------------------------- C27
\* C27: the client's getEscrowOrder reflects the on-chain record.  For every
\* trade, the object it builds from the tuple get_escrow_order returns has
\* buyerAddress = buyer_wallet, sellerAddress = seller_wallet, quantity =
\* quantity, totalPrice = total_amount, lockedFunds = the locked amount,
\* status = status, deliveryCode = delivery_code, receivingCode =
\* receiving_code, deliveredAt = delivered_at and confirmedAt = completed_at
\* of that trade.
C27_ClientReflectsRecord ==
    fetched.object # <<>>
      => LET escrow_order == fetched.order[1]
             object == fetched.object[1]
         IN  /\ object.buyerAddress = AddressJson(escrow_order.buyer_wallet)
             /\ object.sellerAddress = AddressJson(escrow_order.seller_wallet)
             /\ object.quantity = escrow_order.quantity
             /\ object.totalPrice = escrow_order.total_amount
             /\ object.lockedFunds = escrow_order.locked_funds
             /\ object.status = U8Json(escrow_order.status)
             /\ object.deliveryCode = StringJson(escrow_order.delivery_code)
             /\ object.receivingCode = StringJson(escrow_order.receiving_code)
             /\ object.deliveredAt = escrow_order.delivered_at
             /\ object.confirmedAt = escrow_order.completed_at

\* What the object holds: the view returns seventeen values with quantity
\* third, unit_price sixth and updated_at fifteenth, and the client takes the
\* first fifteen under its own order of names.
C27_WhatTheClientReads ==
    fetched.object # <<>>
      => LET escrow_order == fetched.order[1]
             object == fetched.object[1]
         IN  /\ object.orderId = escrow_order.escrow_order_id
             /\ object.productAddress = AddressJson(escrow_order.product_obj_addr)
             /\ object.buyerAddress = U64Json(escrow_order.quantity)
             /\ object.sellerAddress = AddressJson(escrow_order.buyer_wallet)
             /\ object.quantity = escrow_order.seller_wallet
             /\ object.totalPrice = escrow_order.unit_price
             /\ object.lockedFunds = escrow_order.total_amount
             /\ object.shippingAddress = StringJson(escrow_order.transaction_hash)
             /\ object.status = StringJson(escrow_order.delivery_code)
             /\ object.deliveryCode = StringJson(escrow_order.receiving_code)
             /\ object.receivingCode = U8Json(escrow_order.status)
             /\ object.transactionHash = U64Json(escrow_order.locked_funds)
             /\ object.createdAt = parseIntText(escrow_order.shipping_address)
             /\ object.deliveredAt = escrow_order.created_at
             /\ object.confirmedAt = escrow_order.updated_at

\* The client has read a Holding order: its deliveredAt is the order's
\* creation time although nothing was delivered, its status holds the
\* delivery code and its sellerAddress the buyer.
C27_Witness ==
    /\ fetched.object # <<>>
    /\ fetched.order[1].status = ESCROW_STATUS_HOLDING
    /\ fetched.order[1].delivered_at = 0
    /\ fetched.object[1].deliveredAt = fetched.order[1].created_at
    /\ fetched.object[1].deliveredAt # 0
    /\ fetched.object[1].status = StringJson(fetched.order[1].delivery_code)
    /\ fetched.object[1].sellerAddress
         = AddressJson(fetched.order[1].buyer_wallet)

\* --------------------------------------------------------------------- C28
\* C28: the buyer and the seller of a trade are always different accounts.
\* A profile's role is fixed at registration and changed neither by
\* update_profile nor by deactivate_profile or reactivate_profile; a product
\* is created only by an account with the Seller role and a trade initiated
\* only by an account with the Buyer role, so in every reachable state every
\* trade has buyer # seller.
C28_BuyerIsNotSeller ==
    /\ \A p \in 1..Len(products) : is_seller(products[p].seller_wallet)
    /\ \A o \in OrderAddrs :
         /\ is_buyer(orders[o].buyer_wallet)
         /\ is_seller(orders[o].seller_wallet)
         /\ orders[o].buyer_wallet # orders[o].seller_wallet

C28_Step ==
    \A a \in Accounts :
        profiles[a].exists
          => /\ profiles'[a].exists
             /\ profiles'[a].role = profiles[a].role

C28_DistinctParties ==
    /\ []C28_BuyerIsNotSeller
    /\ [][C28_Step]_vars

\* The seller of the first trade has just reactivated the profile, after
\* 0x789 registered and bought in the second trade: each trade still has a
\* Buyer-role buyer and a Seller-role seller.
C28_Witness ==
    /\ Succeeded("reactivate_profile")
    /\ Len(orders) = 2
    /\ lastCall.caller = orders[1].seller_wallet
    /\ orders[2].buyer_wallet = 1929
    /\ orders[1].buyer_wallet = 291
    /\ orders[2].buyer_wallet # orders[2].seller_wallet

\* --------------------------------------------------------------------- C29
\* C29: is_funds_locked of a trade is true exactly when the trade's status is
\* Holding or Delivered.  Every product price is > 0 (create_product and
\* update_product refuse any other) and every trade quantity is > 0, so every
\* trade's total_amount is > 0: the locked amount is strictly positive in the
\* two active statuses and 0 in the terminal ones.
C29_LockedIffActive ==
    /\ \A p \in 1..Len(products) : products[p].price > 0
    /\ \A o \in OrderAddrs :
         /\ orders[o].quantity > 0
         /\ orders[o].unit_price > 0
         /\ orders[o].total_amount > 0
         /\ is_funds_locked(o) <=> orders[o].status \in Active

\* The seller has just changed the price of the product; of the two trades
\* made on it one is Delivered with its funds locked, one Cancelled with
\* none.
C29_Witness ==
    /\ Succeeded(OP_UPDATE_PRODUCT)
    /\ Len(orders) = 2
    /\ orders[1].status = ESCROW_STATUS_DELIVERED
    /\ is_funds_locked(1)
    /\ orders[2].status = ESCROW_STATUS_CANCELLED
    /\ ~is_funds_locked(2)
    /\ products[1].price # orders[1].unit_price

\* --------------------------------------------------------------------- C30
\* C30: progress with cooperating parties.  Under weak fairness on the
\* seller's deliver_order with the stored delivery code and on the buyer's
\* confirm_delivery_and_release_funds with the stored receiving code, every
\* initiated trade eventually is Completed or Cancelled with a locked amount
\* of 0.  No step but a successful call by the trade's buyer or seller on
\* that trade changes it: without such a call its funds stay locked.
C30_Settled(o) ==
    /\ OrderExists(o)
    /\ orders[o].status \in Terminal
    /\ orders[o].locked_funds = 0

C30_Step ==
    \A o \in OrderAddrs :
        orders'[o] # orders[o]
          => /\ lastCall'.op \in TransitionOps
             /\ lastCall'.err = 0
             /\ lastCall'.obj = o
             /\ lastCall'.caller \in {orders[o].buyer_wallet,
                                      orders[o].seller_wallet}

C30_ProgressWithCooperation ==
    /\ \A o \in 1..MaxOrders : OrderExists(o) ~> C30_Settled(o)
    /\ [][C30_Step]_vars

\* Both trades are settled, one by delivery and confirmation with the stored
\* codes and one by cancellation; the confirmation came last.
C30_Witness ==
    /\ Succeeded(OP_CONFIRM)
    /\ lastCall.code = orders[lastCall.obj].receiving_code
    /\ Len(orders) = 2
    /\ C30_Settled(1)
    /\ C30_Settled(2)
    /\ \E o \in OrderAddrs : orders[o].status = ESCROW_STATUS_CANCELLED

====
